---- MODULE Spec2Model ----
(***************************************************************************)
(* Model of the debate orchestrators of mcp-sage.                          *)
(*                                                                         *)
(*   runDebate  (orchestrator/debateOrchestrator.ts, src/unnamed/part_004) *)
(*   debate     (src/src/debateOrchestrator.ts)                            *)
(*                                                                         *)
(* One behaviour is one invocation of one of the two entry points.  A      *)
(* backend call is an asynchronous step: it is issued when its task        *)
(* starts and it settles (resolves or rejects) in a later step, in any     *)
(* order relative to the other calls of its batch.                         *)
(***************************************************************************)
EXTENDS Integers, Sequences, FiniteSets, TLC

(***************************************************************************)
(* Bounds of the model.                                                    *)
(***************************************************************************)
MaxModels == 4        \* most available backends in one runDebate
MaxRounds == 3        \* largest rounds value a caller passes to runDebate
DebateMaxRounds == 2  \* largest rounds value a caller passes to debate()
MaxAttempts == 3      \* largest attempts option passed to withRetry
MaxFactor == 2        \* largest factor option passed to withRetry
MaxFaults == 3        \* most backend calls that reject in one debate
PromptLen == 4001     \* characters of a prompt
ResponseLen == 35997  \* characters of a backend response

(***************************************************************************)
(* Program constants.                                                      *)
(***************************************************************************)
RoundEstimate == 50000   \* tokenBudget.beginRound(50000)
SelfRoundEstimate == 10000     \* tokenBudget.beginRound(10000), self-debate
DebateRoundEstimate == 50000   \* tokenBudget.beginRound(50000), debate()
DebateDefaultRounds == 3       \* rounds = 3
DefaultParallelism == 3        \* parallelism = 3
InitialSelfPlans == 3          \* for (let i = 0; i < 3; i++)
ConsensusThreshold == 90       \* score >= 0.9, in hundredths
DefaultConfidence == 50        \* return 0.5, in hundredths
BatchWidth == 3          \* chunkArray(tasks, 3)
DefaultAttempts == 3           \* attempts = 3
DefaultInitialDelay == 1000    \* initialDelay = 1000
DefaultMaxDelay == 30000       \* maxDelay = 30000
DefaultFactor == 2             \* factor = 2
SendToModelAttempts == 3       \* withRetry(..., { attempts: 3 })
OpenAiMaxRetries == 3          \* const maxRetries = 3
GeminiTokenLimit == 1000000    \* tokenCount <= 1000000
DefaultRounds == 3       \* ... ?? 3
MaxIds == 8              \* ids = ["A" .. "H"]
OpinionDefaultRounds == 1
ReviewDefaultRounds == 2

Ids == <<"A", "B", "C", "D", "E", "F", "G", "H">>
ModelNames == <<"gpt-5", "gemini-2.5-pro", "claude-opus-4-1", "gpt-4.1", "o3",
                "gemini-2.5-flash", "claude-sonnet-4", "gpt-4o", "o4-mini">>

Unset == -99   \* undefined: an option the caller did not pass, a field not set
BudgetLimits == {0, 49999, 90000}
DebateBudgetLimits == {0, 9999, 49999}
ToolTypes == {"opinion", "review", "other"}

Min(a, b) == IF a <= b THEN a ELSE b
Max(a, b) == IF a >= b THEN a ELSE b

\* Math.ceil(n / 4)
Ceil4(n) == (n + 3) \div 4

(***************************************************************************)
(* Texts.  A text is a record naming what produced it.                     *)
(***************************************************************************)
Text(kind, by, r) == [kind |-> kind, by |-> by, round |-> r]
EmptyText == Text("empty", "", 0)          \* ""
Undefined == Text("undefined", "", 0)      \* candidates[i] past the end
Null == Text("null", "", 0)                \* a task that returned null
Running == Text("running", "", 0)          \* a task whose call has not settled
Settled == Text("settled", "", 0)          \* a task of debate() that has returned
GenText(id) == Text("generate", id, 1)
CritText(id, r) == Text("critique", id, r)
JudgeText == Text("judge", "JUDGE", 0)
ErrorText(id) == Text("error", id, 0)      \* "Error generating output: ..."

\* array[i] with JavaScript's 0-based indexing; undefined outside the array
At(array, i) == IF i >= 0 /\ i < Len(array) THEN array[i + 1] ELSE Undefined

VARIABLES
  prog,            \* which entry point this behaviour runs
  options,         \* the caller's DebateOptions
  sinkRejects,     \* TRUE: every sendNotification call rejects
  availableModels, \* names of the backends whose credential is present
  pc,              \* position of the controller
  config,          \* the merged configuration
  modelMapping,    \* createModelMapping(debateModels)
  round,           \* the loop variable
  debateContext,   \* [candidates, critiques, round]
  candidateModelMapping,
  phase,           \* phase of the batches being run
  batches,         \* chunkArray(tasks, width): task indices per batch
  batchIdx,        \* index of the batch in flight
  inflight,        \* task index -> Running | its result, for the batch in flight
  results,         \* candidateResults / critiqueResults pushed so far
  usedTokens,      \* tokenBudget's usedTokens
  totalPromptTokens,
  totalCompletionTokens,
  warnings,        \* sequence of [code, phase]
  calls,           \* backend calls issued so far, in order: [phase, model, round, signal]
  phases,          \* phases entered so far, in order
  judgeResult,     \* strategy.parseJudge(...) or NoJudgeResult
  finalOutput,
  outcome,         \* "running" | "returned" | "thrown", with the result's meta
  faults,          \* backend calls that rejected so far
  taskIds,         \* model ids of the tasks of the phase being run
  \* debate() only
  envKeys,         \* [openai, gemini]: which credentials are present
  judgeModelName,
  currentPlans,    \* insertion-ordered map: sequence of [id, text]
  selfPlans,       \* plans of the single-model self-debate
  stats,           \* [totalTokens, totalApiCalls, consensus]
  complete,
  finalPlan,
  consensusKind,   \* how the last consensus check ended: "none" | "json" | "text" | "failed"
  token,           \* the debate's cancellation: "live" | "aborted" | "timeout"
  \* one model call
  rt,              \* withRetry around a provider client: options, attempt, delays, requests
  fb,              \* sendToModelWithFallback: selection, provider calls, error, result
  fnCall,          \* one call of a helper function: its arguments and what it returned
  prompts          \* the critique prompts built so far: [modelId, round, entries]

vars == <<prog, options, sinkRejects, availableModels, pc, config, modelMapping,
          round, debateContext, candidateModelMapping, phase, batches, batchIdx,
          inflight, results, usedTokens, totalPromptTokens,
          totalCompletionTokens, warnings, calls, phases, judgeResult,
          finalOutput, outcome, faults, taskIds, envKeys, judgeModelName,
          currentPlans, selfPlans, stats, complete,
          finalPlan, consensusKind, token, rt, fb, fnCall, prompts>>

\* the variables only one model call writes
clientVars == <<rt, fb, fnCall>>
\* the variables only debate() writes
debateVars == <<envKeys, judgeModelName, currentPlans, selfPlans, stats, complete, finalPlan,
                consensusKind, token>>
\* the variables only runDebate writes
runVars == <<debateContext, candidateModelMapping, results, usedTokens,
             totalPromptTokens, totalCompletionTokens, warnings, judgeResult,
             finalOutput>>

(***************************************************************************)
(* Pure helpers of the orchestrator.                                       *)
(***************************************************************************)

\* Faulty variant: the bound on the index is off by one, and the ninth model
\* is stored under ids[8], which is undefined.
createModelMappingOffByOne(models) ==
  LET n == Min(Len(models), MaxIds + 1)
      IdAt(i) == IF i <= MaxIds THEN Ids[i] ELSE "undefined"
      lastIdx(m) == CHOOSE i \in 1..n :
                      models[i] = m /\ \A j \in 1..n : models[j] = m => j <= i
  IN [idToModel |-> [id \in {IdAt(i) : i \in 1..n} |->
                        models[CHOOSE i \in 1..n : IdAt(i) = id]],
      modelToId |-> [m \in {models[i] : i \in 1..n} |-> IdAt(lastIdx(m))]]

\* createModelMapping: ids A, B, ... in list order, for the first 8 models.
\* A later duplicate name overwrites modelToId of an earlier one.
createModelMapping(models) ==
  LET n == Min(Len(models), MaxIds)
      lastIdx(m) == CHOOSE i \in 1..n :
                      models[i] = m /\ \A j \in 1..n : models[j] = m => j <= i
  IN [idToModel |-> [id \in {Ids[i] : i \in 1..n} |->
                        models[CHOOSE i \in 1..n : Ids[i] = id]],
      modelToId |-> [m \in {models[i] : i \in 1..n} |-> Ids[lastIdx(m)]]]

\* Object.keys(idToModel): the ids in insertion order
ObjectKeys(idToModel) ==
  SubSeq(Ids, 1, Cardinality(DOMAIN idToModel))

\* Faulty variant: each slice holds one element more than size.
RECURSIVE chunkArrayWide(_, _)
chunkArrayWide(array, size) ==
  IF Len(array) = 0 THEN <<>>
  ELSE <<SubSeq(array, 1, Min(size + 1, Len(array)))>>
         \o chunkArrayWide(SubSeq(array, Min(size + 1, Len(array)) + 1, Len(array)), size)

\* chunkArray(array, size)
RECURSIVE chunkArray(_, _)
chunkArray(array, size) ==
  IF Len(array) = 0 THEN <<>>
  ELSE <<SubSeq(array, 1, Min(size, Len(array)))>>
         \o chunkArray(SubSeq(array, Min(size, Len(array)) + 1, Len(array)), size)

\* Faulty variant: the usage recorded so far is left out of the check.
beginRoundIgnoringUsage(used, limit, estimatedTokens) == estimatedTokens <= limit

\* tokenBudget.beginRound(estimatedTokens), for a budget created with limit
beginRound(used, limit, estimatedTokens) == used + estimatedTokens <= limit

\* parseModelResponse(response, promptLength).tokenUsage
parseModelResponse(responseLength, promptLength) ==
  [prompt |-> Ceil4(promptLength),
   completion |-> Ceil4(responseLength),
   total |-> Ceil4(promptLength) + Ceil4(responseLength)]

\* Indices 1..n as a sequence
Indices(n) == [i \in 1..n |-> i]

\* array.filter(r => r !== null)
RECURSIVE FilterNotNull(_)
FilterNotNull(array) ==
  IF Len(array) = 0 THEN <<>>
  ELSE (IF Head(array) = Null THEN <<>> ELSE <<Head(array)>>)
         \o FilterNotNull(Tail(array))

(***************************************************************************)
(* A judge response, by the features parseJudge reads:                     *)
(*   marker  n of the first [[WINNER: n]] marker, Unset when there is none *)
(*   synth   the response is a synthesis (valid SEARCH/REPLACE blocks)     *)
(*   mention least n with "opinion n" in the text, 0 when there is none    *)
(***************************************************************************)
\* Markers and mentions range one past the largest candidate number.
MaxMarker == MaxModels + 1

JudgeResponses == [marker : {Unset} \cup 0..MaxMarker,
                   synth : BOOLEAN,
                   mention : 0..MaxMarker]

Success(idx) == [success |-> TRUE, winnerIdx |-> idx, isNull |-> FALSE]
Failure == [success |-> FALSE, winnerIdx |-> Unset, isNull |-> FALSE]
NoJudgeResult == [success |-> FALSE, winnerIdx |-> Unset, isNull |-> TRUE]   \* judgeResult = null

\* Faulty variant: the marker is not checked against the candidate list.
ReviewParseJudgeUnchecked(raw, candidates) ==
  IF raw.marker /= Unset THEN Success(raw.marker - 1)
  ELSE IF raw.synth THEN Success(-1)
  ELSE IF Len(candidates) = 1 THEN Success(0)
  ELSE Failure

\* ReviewStrategy.parseJudge
ReviewParseJudge(raw, candidates) ==
  IF raw.marker /= Unset /\ raw.marker - 1 >= 0 /\ raw.marker - 1 < Len(candidates)
    THEN Success(raw.marker - 1)
  ELSE IF raw.synth THEN Success(-1)
  ELSE IF Len(candidates) = 1 THEN Success(0)
  ELSE Failure

\* OpinionStrategy.parseJudge
OpinionParseJudge(raw, candidates) ==
  IF Len(candidates) = 1 THEN Success(0)
  ELSE IF raw.marker /= Unset /\ raw.marker - 1 >= 0 /\ raw.marker - 1 < Len(candidates)
    THEN Success(raw.marker - 1)
  ELSE IF raw.mention >= 1 /\ raw.mention <= Len(candidates)
    THEN Success(raw.mention - 1)
  ELSE Success(0)

parseJudge(toolType, raw, candidates) ==
  IF toolType = "review" THEN ReviewParseJudge(raw, candidates)
  ELSE OpinionParseJudge(raw, candidates)

\* strategy.configDefaults.rounds
StrategyDefaultRounds(toolType) ==
  IF toolType = "review" THEN ReviewDefaultRounds ELSE OpinionDefaultRounds

\* getStrategy(toolType) finds a registered strategy
HasStrategy(toolType) == toolType \in {"opinion", "review"}

\* a ?? b
Coalesce(a, b) == IF a /= Unset THEN a ELSE b

NoWinner == [modelId |-> "", modelName |-> ""]
Warning(code, ph) == [code |-> code, phase |-> ph]

\* One entry of the log of phases entered: the phase and the round it ran in.
Phase(name, r) == [name |-> name, round |-> r]

\* Faulty variant: the single-model shortcut is never taken.
SingleModelNever(n) == FALSE

\* Line 268: the single-model shortcut is taken with exactly one model.
SingleModel(n) == n = 1

\* Faulty variant: an empty candidate list is not noticed.
AllFailedIgnored(candidates) == FALSE

\* Line 467: every generation of the round failed.
AllFailed(candidates) == Len(candidates) = 0

\* Faulty variant: the final round is critiqued as well.
CritiqueRoundInclusive(r, rounds) == r <= rounds

\* Line 475: a round is critiqued unless it is the final one.
CritiqueRound(r, rounds) == r < rounds

\* Faulty variant: a lone plan is sent to the judge like any other.
UsedDirectlyNever(plans) == FALSE

\* debateOrchestrator.ts line 842: a lone surviving plan is used directly.
UsedDirectly(plans) == Len(plans) = 1

\* A backend call: runDebate passes no abort signal to its calls.
Call(ph, model, r) == [phase |-> ph, model |-> model, round |-> r, signal |-> "none"]
\* A backend call that is handed an abort signal.
CallWith(ph, model, r, signal) ==
  [phase |-> ph, model |-> model, round |-> r, signal |-> signal]
Outcome(status, error, rounds, winner) ==
  [status |-> status, error |-> error, rounds |-> rounds, winner |-> winner]
StillRunning == Outcome("running", "", 0, NoWinner)
Thrown(error) == Outcome("thrown", error, 0, NoWinner)

\* elements of a sequence
ToSet(seq) == {seq[i] : i \in 1..Len(seq)}

modelIds == ObjectKeys(modelMapping.idToModel)
hasTokenBudget == config.maxTotalTokens > 0

\* no model call is being followed
IdleRetry == [pc |-> "idle"]
IdleFallback == [pc |-> "idle"]
IdleCall == [pc |-> "idle"]

(***************************************************************************)
(* Initial states: one invocation, with its inputs.                        *)
(***************************************************************************)
OptionsInputs == [toolType : ToolTypes,
                  enabled : BOOLEAN,
                  rounds : {Unset} \cup 0..MaxRounds,
                  maxTotalTokens : BudgetLimits]

InitOrchestrator ==
  /\ sinkRejects \in BOOLEAN
  /\ pc = "start"
  /\ config = [enabled |-> FALSE, rounds |-> 0, maxTotalTokens |-> 0]
  /\ modelMapping = createModelMapping(<<>>)
  /\ round = 0
  /\ debateContext = [candidates |-> <<>>, critiques |-> <<>>, round |-> 1]
  /\ candidateModelMapping = <<>>
  /\ phase = ""
  /\ batches = <<>>
  /\ batchIdx = 0
  /\ inflight = <<>>
  /\ results = <<>>
  /\ usedTokens = 0
  /\ totalPromptTokens = 0
  /\ totalCompletionTokens = 0
  /\ warnings = <<>>
  /\ calls = <<>>
  /\ prompts = <<>>
  /\ phases = <<>>
  /\ judgeResult = NoJudgeResult
  /\ finalOutput = EmptyText
  /\ outcome = StillRunning
  /\ faults = 0
  /\ taskIds = <<>>
  /\ judgeModelName = ""
  /\ currentPlans = <<>>
  /\ selfPlans = <<>>
  /\ stats = [totalTokens |-> 0, totalApiCalls |-> 0,
              consensus |-> [reached |-> FALSE, round |-> 0, score |-> 0]]
  /\ complete = FALSE
  /\ finalPlan = EmptyText
  /\ consensusKind = "none"
  /\ token = "live"

InitCommon ==
  /\ InitOrchestrator
  /\ rt = IdleRetry
  /\ fb = IdleFallback
  /\ fnCall = IdleCall

InitRunDebate ==
  /\ prog = "runDebate"
  /\ options \in OptionsInputs
  /\ availableModels \in {SubSeq(ModelNames, 1, n) : n \in 0..MaxModels}
  /\ envKeys = [openai |-> TRUE, gemini |-> TRUE]
  /\ InitCommon

(***************************************************************************)
(* runDebate                                                               *)
(***************************************************************************)

\* The merged configuration (lines 149-159).
MergeConfig(opts) ==
  [enabled |-> opts.enabled,
   rounds |-> Coalesce(opts.rounds,
                       Coalesce(StrategyDefaultRounds(opts.toolType), DefaultRounds)),
   maxTotalTokens |-> Coalesce(opts.maxTotalTokens, 0)]

\* Faulty variant: a new warning replaces the warnings recorded before.
addWarningReplacing(code, ph) == warnings' = <<Warning(code, ph)>>

\* addWarning(code, message, phase)
addWarning(code, ph) == warnings' = Append(warnings, Warning(code, ph))

\* Faulty variant: the usage of a call overwrites the totals.
RecordUsageOverwrite(usage) ==
  /\ totalPromptTokens' = usage.prompt
  /\ totalCompletionTokens' = usage.completion
  /\ usedTokens' = IF hasTokenBudget THEN usage.total ELSE usedTokens

\* Record the token usage of one successful call.
RecordUsage(usage) ==
  /\ totalPromptTokens' = totalPromptTokens + usage.prompt
  /\ totalCompletionTokens' = totalCompletionTokens + usage.completion
  /\ usedTokens' = IF hasTokenBudget THEN usedTokens + usage.total ELSE usedTokens

\* One more backend call rejects.
InjectFault ==
  /\ faults < MaxFaults
  /\ faults' = faults + 1

\* runDebate throws: nothing is returned.
Throw(error) ==
  /\ pc' = "thrown"
  /\ outcome' = Thrown(error)

\* Lines 143-272: strategy lookup, configuration, available models, mapping.
RD_Setup ==
  /\ prog = "runDebate"
  /\ pc = "start"
  /\ LET cfg == MergeConfig(options)
         n == Len(availableModels)
     IN /\ config' = IF HasStrategy(options.toolType) THEN cfg ELSE config
        /\ IF ~HasStrategy(options.toolType) THEN
             Throw("NoStrategy") /\ UNCHANGED <<modelMapping, round>>
           ELSE IF ~cfg.enabled THEN
             /\ Throw(IF sinkRejects THEN "SinkRejected" ELSE "DebateDisabled")
             /\ UNCHANGED <<modelMapping, round>>
           ELSE IF n = 0 THEN
             Throw("NoModels") /\ UNCHANGED <<modelMapping, round>>
           ELSE IF sinkRejects THEN
             /\ Throw("SinkRejected")
             /\ modelMapping' = createModelMapping(availableModels)
             /\ UNCHANGED round
           ELSE
             /\ modelMapping' = createModelMapping(availableModels)
             /\ pc' = IF SingleModel(n) THEN "single" ELSE "loop"
             /\ round' = IF SingleModel(n) THEN round ELSE 1
             /\ UNCHANGED outcome
  /\ UNCHANGED <<clientVars, debateVars, faults, taskIds, prog, options, sinkRejects, availableModels, debateContext,
                 candidateModelMapping, phase, batches, batchIdx, inflight,
                 results, usedTokens, totalPromptTokens, totalCompletionTokens,
                 warnings, calls, prompts, phases, judgeResult, finalOutput>>

\* Lines 274-293: the single-model shortcut issues its one generate call.
RD_SingleGenerate ==
  /\ prog = "runDebate"
  /\ pc = "single"
  /\ phases' = Append(phases, Phase("generate", round))
  /\ calls' = Append(calls, Call("generate", modelMapping.idToModel[modelIds[1]], 1))
  /\ UNCHANGED prompts
  /\ pc' = "singleWait"
  /\ UNCHANGED <<clientVars, debateVars, faults, taskIds, prog, options, sinkRejects, availableModels, config,
                 modelMapping, round, debateContext, candidateModelMapping,
                 phase, batches, batchIdx, inflight, results, usedTokens,
                 totalPromptTokens, totalCompletionTokens, warnings,
                 judgeResult, finalOutput, outcome>>

\* Lines 294-308: the call resolved.
RD_SingleOk ==
  /\ prog = "runDebate"
  /\ pc = "singleWait"
  /\ RecordUsage(parseModelResponse(ResponseLen, PromptLen))
  /\ finalOutput' = GenText(modelIds[1])
  /\ pc' = "meta"
  /\ UNCHANGED <<clientVars, debateVars, faults, taskIds, prog, options, sinkRejects, availableModels, config,
                 modelMapping, round, debateContext, candidateModelMapping,
                 phase, batches, batchIdx, inflight, results, warnings, calls, prompts,
                 phases, judgeResult, outcome>>

\* Lines 309-319: the call rejected.
RD_SingleFail ==
  /\ prog = "runDebate"
  /\ pc = "singleWait"
  /\ InjectFault
  /\ addWarning("GEN_FAIL", "generate")
  /\ finalOutput' = ErrorText(modelIds[1])
  /\ pc' = "meta"
  /\ UNCHANGED <<clientVars, debateVars, taskIds, prog, options, sinkRejects, availableModels, config,
                 modelMapping, round, debateContext, candidateModelMapping,
                 phase, batches, batchIdx, inflight, results, usedTokens,
                 totalPromptTokens, totalCompletionTokens, calls, prompts, phases,
                 judgeResult, outcome>>

\* Start a phase of one task per model id, in batches of BatchWidth.
StartPhase(ph) ==
  /\ phase' = ph
  /\ phases' = Append(phases, Phase(ph, round))
  /\ taskIds' = modelIds
  /\ batches' = chunkArray(Indices(Len(modelIds)), BatchWidth)
  /\ batchIdx' = 1
  /\ results' = <<>>
  /\ pc' = "batchStart"

\* Lines 474-476: the critique phase, skipped on the final round.
CritiqueOrNextRound(r) ==
  IF CritiqueRound(r, config.rounds)
    THEN StartPhase("critique") /\ round' = r
    ELSE /\ round' = r + 1
         /\ pc' = "loop"
         /\ UNCHANGED <<phase, phases, taskIds, batches, batchIdx, results>>

\* Lines 322-343: loop header, budget check, choice of the phase.
RD_RoundHead ==
  /\ prog = "runDebate"
  /\ pc = "loop"
  /\ IF round > config.rounds THEN
       /\ pc' = "judge"
       /\ UNCHANGED <<round, debateContext, warnings, phase, phases, taskIds,
                      batches, batchIdx, results>>
     ELSE
       /\ debateContext' = [debateContext EXCEPT !.round = round]
       /\ IF hasTokenBudget
             /\ ~beginRound(usedTokens, config.maxTotalTokens, RoundEstimate) THEN
            /\ addWarning("TOKEN_BUDGET", "generate")
            /\ pc' = "judge"
            /\ UNCHANGED <<round, phase, phases, taskIds, batches, batchIdx,
                           results>>
          ELSE IF round = 1 THEN
            /\ StartPhase("generate")
            /\ UNCHANGED <<round, warnings>>
          ELSE
            /\ CritiqueOrNextRound(round)
            /\ UNCHANGED warnings
  /\ UNCHANGED <<clientVars, debateVars, faults, prog, options, sinkRejects, availableModels, config,
                 modelMapping, candidateModelMapping, inflight, usedTokens,
                 totalPromptTokens, totalCompletionTokens, calls, prompts, judgeResult,
                 finalOutput, outcome>>

\* The calls a batch issues, in task order.
BatchCalls(batch) ==
  [k \in 1..Len(batch) |->
     Call(phase, modelMapping.idToModel[taskIds[batch[k]]], round)]

\* strategy.getPrompt("critique", {...debateContext, ...}) of the task of
\* modelId (lines 501-506): the entries are ctx.candidates
CritiquePrompt(modelId) ==
  [modelId |-> modelId, round |-> round, entries |-> debateContext.candidates]

\* The critique prompts a batch builds, in task order.
BatchPrompts(batch) ==
  IF phase = "critique"
    THEN [k \in 1..Len(batch) |-> CritiquePrompt(taskIds[batch[k]])]
    ELSE <<>>

\* Lines 441-443, 596-598: Promise.all(batch.map(task => task())) starts
\* every task of the batch; each issues its call.
RD_StartBatch ==
  /\ prog = "runDebate"
  /\ pc = "batchStart"
  /\ inflight' = [i \in ToSet(batches[batchIdx]) |-> Running]
  /\ calls' = calls \o BatchCalls(batches[batchIdx])
  /\ prompts' = prompts \o BatchPrompts(batches[batchIdx])
  /\ pc' = "batchWait"
  /\ UNCHANGED <<clientVars, debateVars, faults, taskIds, prog, options, sinkRejects, availableModels, config,
                 modelMapping, round, debateContext, candidateModelMapping,
                 phase, batches, batchIdx, results, usedTokens,
                 totalPromptTokens, totalCompletionTokens, warnings, phases,
                 judgeResult, finalOutput, outcome>>

\* The text a task returns when its call resolves.
TaskText(i) ==
  IF phase = "generate" THEN GenText(taskIds[i]) ELSE CritText(taskIds[i], round)

\* Lines 394-422, 546-577: a task's call resolved.
RD_TaskOk(i) ==
  /\ prog = "runDebate"
  /\ pc = "batchWait"
  /\ i \in DOMAIN inflight
  /\ inflight[i] = Running
  /\ RecordUsage(parseModelResponse(ResponseLen, PromptLen))
  /\ inflight' = [inflight EXCEPT ![i] = TaskText(i)]
  /\ UNCHANGED <<clientVars, debateVars, faults, taskIds, prog, options, sinkRejects, availableModels, pc, config,
                 modelMapping, round, debateContext, candidateModelMapping,
                 phase, batches, batchIdx, results, warnings, calls, prompts, phases,
                 judgeResult, finalOutput, outcome>>

\* Faulty variant: a task's rejection escapes its worker and Promise.all
\* rejects with it.
RD_TaskFailRethrow(i) ==
  /\ prog = "runDebate"
  /\ pc = "batchWait"
  /\ i \in DOMAIN inflight
  /\ inflight[i] = Running
  /\ InjectFault
  /\ Throw("WorkerError")
  /\ inflight' = [inflight EXCEPT ![i] = Null]
  /\ UNCHANGED <<clientVars, debateVars, taskIds, prog, options, sinkRejects, availableModels, config,
                 modelMapping, round, debateContext, candidateModelMapping,
                 phase, batches, batchIdx, results, usedTokens,
                 totalPromptTokens, totalCompletionTokens, warnings, calls, prompts,
                 phases, judgeResult, finalOutput>>

\* Lines 424-432, 579-587: a task's call rejected.
RD_TaskFail(i) ==
  /\ prog = "runDebate"
  /\ pc = "batchWait"
  /\ i \in DOMAIN inflight
  /\ inflight[i] = Running
  /\ InjectFault
  /\ addWarning("GEN_FAIL", phase)
  /\ inflight' = [inflight EXCEPT ![i] = Null]
  /\ UNCHANGED <<clientVars, debateVars, taskIds, prog, options, sinkRejects, availableModels, pc, config,
                 modelMapping, round, debateContext, candidateModelMapping,
                 phase, batches, batchIdx, results, usedTokens,
                 totalPromptTokens, totalCompletionTokens, calls, prompts, phases,
                 judgeResult, finalOutput, outcome>>

BatchSettled == \A i \in DOMAIN inflight : inflight[i] /= Running
\* batchResults, in task order whatever the completion order
BatchResults == [k \in 1..Len(batches[batchIdx]) |-> inflight[batches[batchIdx][k]]]

\* The for-loop over batches moves on once Promise.all resolved.
RD_NextBatch ==
  /\ prog = "runDebate"
  /\ pc = "batchWait"
  /\ BatchSettled
  /\ batchIdx < Len(batches)
  /\ results' = results \o BatchResults
  /\ batchIdx' = batchIdx + 1
  /\ inflight' = <<>>
  /\ pc' = "batchStart"
  /\ UNCHANGED <<clientVars, debateVars, faults, taskIds, prog, options, sinkRejects, availableModels, config,
                 modelMapping, round, debateContext, candidateModelMapping,
                 phase, batches, usedTokens, totalPromptTokens,
                 totalCompletionTokens, warnings, calls, prompts, phases, judgeResult,
                 finalOutput, outcome>>

\* Faulty variant: the model id is looked up by the candidate's index, not
\* by the index of its result.
RECURSIVE BuildMappingByCandidateIndex(_, _, _)
BuildMappingByCandidateIndex(candidateResults, resultIndex, candidateIndex) ==
  IF resultIndex >= Len(candidateResults) THEN <<>>
  ELSE IF At(candidateResults, resultIndex) /= Null THEN
    <<[candidateIndex |-> candidateIndex,
       modelId |-> modelIds[candidateIndex + 1],
       modelName |-> modelMapping.idToModel[modelIds[candidateIndex + 1]]]>>
      \o BuildMappingByCandidateIndex(candidateResults, resultIndex + 1,
                                      candidateIndex + 1)
  ELSE BuildMappingByCandidateIndex(candidateResults, resultIndex + 1,
                                    candidateIndex)

\* Lines 447-465: candidates and candidateModelMapping from candidateResults.
RECURSIVE BuildMapping(_, _, _)
BuildMapping(candidateResults, resultIndex, candidateIndex) ==
  IF resultIndex >= Len(candidateResults) THEN <<>>
  ELSE IF At(candidateResults, resultIndex) /= Null THEN
    <<[candidateIndex |-> candidateIndex,
       modelId |-> modelIds[resultIndex + 1],
       modelName |-> modelMapping.idToModel[modelIds[resultIndex + 1]]]>>
      \o BuildMapping(candidateResults, resultIndex + 1, candidateIndex + 1)
  ELSE BuildMapping(candidateResults, resultIndex + 1, candidateIndex)

\* Lines 445-476: the generation phase ended.
RD_EndGenerate ==
  /\ prog = "runDebate"
  /\ pc = "batchWait"
  /\ phase = "generate"
  /\ BatchSettled
  /\ batchIdx = Len(batches)
  /\ LET candidateResults == results \o BatchResults
         candidates == FilterNotNull(candidateResults)
     IN /\ debateContext' = [debateContext EXCEPT !.candidates = candidates]
        /\ candidateModelMapping' = BuildMapping(candidateResults, 0, 0)
        /\ inflight' = <<>>
        /\ IF AllFailed(candidates) THEN
             /\ Throw("AllGenerationsFailed")
             /\ results' = candidateResults
             /\ UNCHANGED <<round, phase, phases, taskIds, batches, batchIdx>>
           ELSE
             /\ CritiqueOrNextRound(round)
             /\ UNCHANGED outcome
  /\ UNCHANGED <<clientVars, debateVars, faults, prog, options, sinkRejects, availableModels, config,
                 modelMapping, usedTokens, totalPromptTokens,
                 totalCompletionTokens, warnings, calls, prompts, judgeResult,
                 finalOutput>>

\* Lines 600-607: the critique phase ended; next round.
RD_EndCritique ==
  /\ prog = "runDebate"
  /\ pc = "batchWait"
  /\ phase = "critique"
  /\ BatchSettled
  /\ batchIdx = Len(batches)
  /\ debateContext' =
       [debateContext EXCEPT !.critiques = FilterNotNull(results \o BatchResults)]
  /\ results' = <<>>
  /\ inflight' = <<>>
  /\ round' = round + 1
  /\ pc' = "loop"
  /\ UNCHANGED <<clientVars, debateVars, faults, taskIds, prog, options, sinkRejects, availableModels, config,
                 modelMapping, candidateModelMapping, phase, batches, batchIdx,
                 usedTokens, totalPromptTokens, totalCompletionTokens,
                 warnings, calls, prompts, phases, judgeResult, finalOutput, outcome>>

\* Lines 609-662: the judge prompt is built and the judge call issued.
RD_Judge ==
  /\ prog = "runDebate"
  /\ pc = "judge"
  /\ phases' = Append(phases, Phase("judge", round))
  /\ calls' = Append(calls, Call("judge", "JUDGE", debateContext.round))
  /\ UNCHANGED prompts
  /\ pc' = "judgeWait"
  /\ UNCHANGED <<clientVars, debateVars, faults, taskIds, prog, options, sinkRejects, availableModels, config,
                 modelMapping, round, debateContext, candidateModelMapping,
                 phase, batches, batchIdx, inflight, results, usedTokens,
                 totalPromptTokens, totalCompletionTokens, warnings,
                 judgeResult, finalOutput, outcome>>

\* Faulty variant: a synthesis by the judge is not recognised.
SelectFinalOutputNoSynthesis(result, candidates) ==
  IF result.success /\ result.winnerIdx >= 0
    THEN At(candidates, result.winnerIdx)
    ELSE At(candidates, 0)

\* Faulty variant: a malformed judge response falls back to the last candidate.
SelectFinalOutputLast(result, candidates) ==
  IF result.success
    THEN IF result.winnerIdx = -1 THEN JudgeText ELSE At(candidates, result.winnerIdx)
    ELSE At(candidates, Len(candidates) - 1)

\* Lines 688-703: the final output chosen from the parsed judge result.
SelectFinalOutput(result, candidates) ==
  IF result.success
    THEN IF result.winnerIdx = -1 THEN JudgeText ELSE At(candidates, result.winnerIdx)
    ELSE At(candidates, 0)

\* Lines 663-703: the judge call resolved with the response raw.
RD_JudgeOk(raw) ==
  /\ prog = "runDebate"
  /\ pc = "judgeWait"
  /\ RecordUsage(parseModelResponse(ResponseLen, PromptLen))
  /\ LET result == parseJudge(options.toolType, raw, debateContext.candidates)
     IN /\ judgeResult' = result
        /\ finalOutput' = SelectFinalOutput(result, debateContext.candidates)
        /\ IF result.success THEN UNCHANGED warnings
           ELSE addWarning("JUDGE_MALFORMED", "judge")
  /\ pc' = "meta"
  /\ UNCHANGED <<clientVars, debateVars, faults, taskIds, prog, options, sinkRejects, availableModels, config,
                 modelMapping, round, debateContext, candidateModelMapping,
                 phase, batches, batchIdx, inflight, results, calls, prompts, phases,
                 outcome>>

\* Faulty variant: the judge's rejection escapes runDebate.
RD_JudgeFailRethrow ==
  /\ prog = "runDebate"
  /\ pc = "judgeWait"
  /\ InjectFault
  /\ Throw("JudgeError")
  /\ UNCHANGED <<clientVars, debateVars, taskIds, prog, options, sinkRejects, availableModels, config,
                 modelMapping, round, debateContext, candidateModelMapping,
                 phase, batches, batchIdx, inflight, results, usedTokens,
                 totalPromptTokens, totalCompletionTokens, warnings, calls, prompts,
                 phases, judgeResult, finalOutput>>

\* Lines 704-718: the judge call rejected.
RD_JudgeFail ==
  /\ prog = "runDebate"
  /\ pc = "judgeWait"
  /\ InjectFault
  /\ addWarning("JUDGE_MALFORMED", "judge")
  /\ finalOutput' = At(debateContext.candidates, 0)
  /\ pc' = "meta"
  /\ UNCHANGED <<clientVars, debateVars, taskIds, prog, options, sinkRejects, availableModels, config,
                 modelMapping, round, debateContext, candidateModelMapping,
                 phase, batches, batchIdx, inflight, results, usedTokens,
                 totalPromptTokens, totalCompletionTokens, calls, prompts, phases,
                 judgeResult, outcome>>

\* Faulty variant: the winner is the backend at the winning index among all
\* backends, failed ones included.
FindWinnerAmongAll(result, mapping) ==
  IF ~result.isNull /\ result.success /\ result.winnerIdx >= 0
       /\ result.winnerIdx < Len(modelIds)
    THEN [modelId |-> modelIds[result.winnerIdx + 1],
          modelName |-> modelMapping.idToModel[modelIds[result.winnerIdx + 1]]]
    ELSE NoWinner

\* Lines 742-765: the winner, looked up by candidate index.
FindWinner(result, mapping) ==
  IF ~result.isNull /\ result.success /\ result.winnerIdx >= 0
       /\ \E k \in 1..Len(mapping) : mapping[k].candidateIndex = result.winnerIdx
    THEN LET k == CHOOSE k \in 1..Len(mapping) :
                    /\ mapping[k].candidateIndex = result.winnerIdx
                    /\ \A j \in 1..(k - 1) :
                         mapping[j].candidateIndex /= result.winnerIdx
         IN [modelId |-> mapping[k].modelId, modelName |-> mapping[k].modelName]
    ELSE NoWinner

\* Lines 721-816: the result is assembled and returned.
RD_Finish ==
  /\ prog = "runDebate"
  /\ pc = "meta"
  /\ outcome' = Outcome("returned", "", debateContext.round,
                        FindWinner(judgeResult, candidateModelMapping))
  /\ pc' = "done"
  /\ UNCHANGED <<clientVars, debateVars, faults, taskIds, prog, options, sinkRejects, availableModels, config,
                 modelMapping, round, debateContext, candidateModelMapping,
                 phase, batches, batchIdx, inflight, results, usedTokens,
                 totalPromptTokens, totalCompletionTokens, warnings, calls, prompts,
                 phases, judgeResult, finalOutput>>

NextRunDebate ==
  \/ RD_Setup
  \/ RD_SingleGenerate
  \/ RD_SingleOk
  \/ RD_SingleFail
  \/ RD_RoundHead
  \/ RD_StartBatch
  \/ \E i \in 1..MaxIds : RD_TaskOk(i)
  \/ \E i \in 1..MaxIds : RD_TaskFail(i)
  \/ RD_NextBatch
  \/ RD_EndGenerate
  \/ RD_EndCritique
  \/ RD_Judge
  \/ \E raw \in JudgeResponses : RD_JudgeOk(raw)
  \/ RD_JudgeFail
  \/ RD_Finish

(***************************************************************************)
(* debate                                                                  *)
(***************************************************************************)
O3_MODEL_NAME == "o3-2025-04-16"
GPT41_NAME == "gpt-4.1-2025-04-14"
GEMINI_NAME == "gemini-2.5-pro-preview-03-25"

\* modelName.includes('gemini')
IsGemini(name) ==
  name \in {GEMINI_NAME, "gemini-2.5-pro", "gemini-2.5-flash"}

\* getAvailableModels().filter(m => m.available).map(m => m.name)
DebateAvailableModels(keys) ==
  (IF keys.openai THEN <<O3_MODEL_NAME, GPT41_NAME>> ELSE <<>>)
    \o (IF keys.gemini THEN <<GEMINI_NAME>> ELSE <<>>)

\* Lines 549-560: judgeModel = 'auto': o3 when available, else the available
\* model with the largest token limit.
SelectJudge(available) ==
  IF \E k \in 1..Len(available) : available[k] = O3_MODEL_NAME THEN O3_MODEL_NAME
  ELSE IF \E k \in 1..Len(available) : available[k] = GPT41_NAME THEN GPT41_NAME
  ELSE available[1]

\* sendToModel's estimated token usage: length / 4 (openai), length / 5 (gemini)
CeilDiv(n, d) == (n + d - 1) \div d
SendToModelUsage(name, promptLength, responseLength) ==
  LET d == IF IsGemini(name) THEN 5 ELSE 4
  IN [prompt |-> CeilDiv(promptLength, d),
      completion |-> CeilDiv(responseLength, d),
      total |-> CeilDiv(promptLength + responseLength, d)]

SynthText(id, r) == Text("synthesize", id, r)
SelfText(k) == Text("self", "A", k)
FailedText == Text("failed", "", 0)   \* "Debate failed: ..."
NoPlanText == Text("noplan", "", 0)   \* "Error occurred during debate. No valid plan was produced."
SelfErrorText == Text("selferror", "", 0)  \* "Error occurred during self-debate."

\* currentPlans: an object whose keys keep their insertion order
PlanIds(plans) == [k \in 1..Len(plans) |-> plans[k].id]
\* Faulty variant: storing a plan drops the plans of the other models.
SetPlanAlone(plans, id, text) == <<[id |-> id, text |-> text]>>

\* currentPlans[id] = text (lines 695, 746): insertion order of the keys kept
SetPlan(plans, id, text) ==
  IF \E k \in 1..Len(plans) : plans[k].id = id
    THEN [k \in 1..Len(plans) |->
            IF plans[k].id = id THEN [id |-> id, text |-> text] ELSE plans[k]]
    ELSE Append(plans, [id |-> id, text |-> text])

\* logEntry(entry): the statistics it updates
logEntry(usage) ==
  stats' = [stats EXCEPT !.totalTokens = @ + usage.total,
                         !.totalApiCalls = @ + 1]

ScoreValues == {0, 50, 90}
\* A consensus response, by what checkConsensus reads: whether it parses as
\* JSON, its consensusReached and consensusScore fields, or else the score of
\* a "Confidence Score:" line (Unset: no such field or line).
ConsensusResponses == [json : BOOLEAN,
                       consensusReached : BOOLEAN,
                       score : {Unset} \cup ScoreValues]

\* extractConfidenceScore(text)
extractConfidenceScore(score) == IF score = Unset THEN DefaultConfidence ELSE score

\* Faulty variant: a response that is not JSON counts as consensus.
ConsensusOfTextReached(resp) ==
  IF resp.json
    THEN [reached |-> resp.consensusReached,
          score |-> IF resp.score = Unset THEN 0 ELSE resp.score]
    ELSE [reached |-> TRUE, score |-> extractConfidenceScore(resp.score)]

\* checkConsensus: lines 395-411, the call having resolved with resp
ConsensusOf(resp) ==
  IF resp.json
    THEN [reached |-> resp.consensusReached,
          score |-> IF resp.score = Unset THEN 0 ELSE resp.score]
    ELSE [reached |-> extractConfidenceScore(resp.score) >= ConsensusThreshold,
          score |-> extractConfidenceScore(resp.score)]

\* Lines 466-472: debateSignal is the caller's signal, or the signal of a
\* local controller when the caller passed none.
debateSignal == IF options.abortSignal THEN "caller" ELSE "local"
\* The abortSignal option itself: undefined when the caller passed none.
abortSignal == IF options.abortSignal THEN "caller" ELSE "none"

\* Lines 479-493: the signals that have been aborted.  The timer aborts the
\* local controller, when there is one, and nothing else; the caller's signal
\* is aborted by the caller alone.
SignalFired(signal) ==
  \/ signal = "local" /\ token = "timeout"
  \/ signal = "caller" /\ token = "aborted"

\* Lines 477-494: a call raced against timeoutPromise rejects by a fault of
\* the backend, or because the debate was aborted or timed out.
RacedCallRejects == IF token = "live" THEN InjectFault ELSE UNCHANGED faults
\* A raced call can only resolve while timeoutPromise is pending.
RacedCallResolves == token = "live"
\* The consensus call is not raced: it rejects by a fault, or because the
\* caller's signal it was handed is aborted.
ConsensusCallRejects == IF token = "aborted" THEN UNCHANGED faults ELSE InjectFault
ConsensusCallResolves == token /= "aborted"

InitDebate ==
  /\ prog = "debate"
  /\ options \in [toolType : {"plan"}, enabled : {TRUE},
                  rounds : {Unset} \cup 0..DebateMaxRounds,
                  maxTotalTokens : DebateBudgetLimits,
                  parallelism : {Unset, 2},
                  abortSignal : {FALSE}]
  /\ envKeys \in [openai : BOOLEAN, gemini : BOOLEAN]
  /\ availableModels = <<>>
  /\ InitCommon

\* The outer catch (lines 920-927): debate() returns a failure result.
DebateFailed ==
  /\ finalPlan' = FailedText
  /\ pc' = "d_return"

\* Lines 526-578: available models, mapping, judge, self-debate or not.
D_Setup ==
  /\ prog = "debate"
  /\ pc = "start"
  /\ LET available == DebateAvailableModels(envKeys)
     IN IF sinkRejects \/ Len(available) = 0 THEN
          /\ DebateFailed
          /\ UNCHANGED <<availableModels, config, modelMapping, judgeModelName,
                         round>>
        ELSE
          /\ availableModels' = available
          /\ config' = [enabled |-> TRUE,
                        rounds |-> Coalesce(options.rounds, DebateDefaultRounds),
                        maxTotalTokens |-> options.maxTotalTokens,
                        parallelism |-> Coalesce(options.parallelism,
                                                 DefaultParallelism)]
          /\ modelMapping' = createModelMapping(available)
          /\ judgeModelName' = SelectJudge(available)
          /\ round' = 1
          /\ pc' = IF Len(available) = 1 THEN "d_self" ELSE "d_loop"
          /\ UNCHANGED finalPlan
  /\ UNCHANGED <<clientVars, token, consensusKind, runVars, prog, options, sinkRejects, envKeys, phase, batches,
                 batchIdx, inflight, calls, prompts, phases, outcome, faults, taskIds,
                 currentPlans, selfPlans, stats,
                 complete>>

\* Lines 593-646: the next step of the self-debate: one more call, or the end.
D_SelfStep ==
  /\ prog = "debate"
  /\ pc = "d_self"
  /\ IF Len(selfPlans) < InitialSelfPlans THEN
       /\ phase' = "generate"
       /\ phases' = IF Len(selfPlans) = 0 THEN Append(phases, Phase("generate", round)) ELSE phases
       /\ calls' = Append(calls, CallWith("generate", availableModels[1], 1, debateSignal))
       /\ UNCHANGED prompts
       /\ pc' = "d_selfWait"
       /\ UNCHANGED <<finalPlan, complete>>
     ELSE IF round <= config.rounds
             /\ ~(hasTokenBudget
                  /\ ~beginRound(0, config.maxTotalTokens, SelfRoundEstimate)) THEN
       /\ phase' = "synthesize"
       /\ phases' = Append(phases, Phase("synthesize", round))
       /\ calls' = Append(calls, CallWith("synthesize", availableModels[1], round, debateSignal))
       /\ UNCHANGED prompts
       /\ pc' = "d_selfWait"
       /\ UNCHANGED <<finalPlan, complete>>
     ELSE
       /\ finalPlan' = selfPlans[Len(selfPlans)]
       /\ complete' = TRUE
       /\ pc' = "d_return"
       /\ UNCHANGED <<phase, phases, calls, prompts>>
  /\ UNCHANGED <<clientVars, token, consensusKind, runVars, prog, options, sinkRejects, envKeys, availableModels,
                 config, modelMapping, round, batches, batchIdx, inflight,
                 outcome, faults, taskIds, judgeModelName, currentPlans,
                 selfPlans, stats>>

\* Lines 603-612, 632-641: the self-debate call resolved.
D_SelfOk ==
  /\ prog = "debate"
  /\ pc = "d_selfWait"
  /\ RacedCallResolves
  /\ logEntry(SendToModelUsage(availableModels[1], PromptLen, ResponseLen))
  /\ selfPlans' = Append(selfPlans, SelfText(Len(selfPlans) + 1))
  /\ round' = IF phase = "synthesize" THEN round + 1
              ELSE IF Len(selfPlans) + 1 = InitialSelfPlans THEN 2 ELSE round
  /\ pc' = "d_self"
  /\ UNCHANGED <<clientVars, token, consensusKind, runVars, prog, options, sinkRejects, envKeys, availableModels,
                 config, modelMapping, phase, batches, batchIdx, inflight,
                 calls, prompts, phases, outcome, faults, taskIds, judgeModelName,
                 currentPlans, complete, finalPlan>>

\* Lines 647-651: a self-debate call rejected.
D_SelfFail ==
  /\ prog = "debate"
  /\ pc = "d_selfWait"
  /\ RacedCallRejects
  /\ finalPlan' = SelfErrorText
  /\ pc' = "d_return"
  /\ UNCHANGED <<clientVars, token, consensusKind, runVars, prog, options, sinkRejects, envKeys, availableModels,
                 config, modelMapping, round, phase, batches, batchIdx,
                 inflight, calls, prompts, phases, outcome, taskIds, judgeModelName,
                 currentPlans, selfPlans, stats,
                 complete>>

\* Start a phase of one task per id of ids, in batches of parallelism.
D_StartPhase(ph, ids) ==
  /\ phase' = ph
  /\ phases' = Append(phases, Phase(ph, round))
  /\ taskIds' = ids
  /\ batches' = chunkArray(Indices(Len(ids)), config.parallelism)
  /\ batchIdx' = IF Len(ids) = 0 THEN 0 ELSE 1
  /\ pc' = IF Len(ids) = 0 THEN "d_batchWait" ELSE "d_batchStart"

\* Lines 655-669, 709-716: loop header, budget check, generation or synthesis.
D_RoundHead ==
  /\ prog = "debate"
  /\ pc = "d_loop"
  /\ IF round > config.rounds
        \/ (hasTokenBudget
            /\ ~beginRound(0, config.maxTotalTokens, DebateRoundEstimate)) THEN
       /\ pc' = "d_judge"
       /\ UNCHANGED <<phase, phases, taskIds, batches, batchIdx>>
     ELSE IF round = 1 THEN D_StartPhase("generate", modelIds)
     ELSE D_StartPhase("synthesize", PlanIds(currentPlans))
  /\ UNCHANGED <<clientVars, token, consensusKind, runVars, prog, options, sinkRejects, envKeys, availableModels,
                 config, modelMapping, round, inflight, calls, prompts, outcome, faults,
                 judgeModelName, currentPlans, selfPlans, stats, complete, finalPlan>>

\* Lines 706-708, 756-759, 831-834: the tasks of a batch start; each issues
\* its call.
\* plansToReview (lines 802-804): the current plans without the plan of
\* modelId, and the prompt built from them
RECURSIVE PlansToReview(_, _)
PlansToReview(plans, modelId) ==
  IF Len(plans) = 0 THEN <<>>
  ELSE (IF plans[1].id = modelId THEN <<>> ELSE <<plans[1].text>>)
         \o PlansToReview(Tail(plans), modelId)

D_CritiquePrompt(modelId) ==
  [modelId |-> modelId, round |-> round,
   entries |-> PlansToReview(currentPlans, modelId)]

D_BatchPrompts(batch) ==
  IF phase = "critique"
    THEN [k \in 1..Len(batch) |-> D_CritiquePrompt(taskIds[batch[k]])]
    ELSE <<>>

D_StartBatch ==
  /\ prog = "debate"
  /\ pc = "d_batchStart"
  /\ inflight' = [i \in ToSet(batches[batchIdx]) |-> Running]
  /\ calls' = calls \o [k \in 1..Len(batches[batchIdx]) |->
                          [BatchCalls(batches[batchIdx])[k]
                             EXCEPT !.signal = debateSignal]]
  /\ prompts' = prompts \o D_BatchPrompts(batches[batchIdx])
  /\ pc' = "d_batchWait"
  /\ UNCHANGED <<clientVars, token, consensusKind, runVars, prog, options, sinkRejects, envKeys, availableModels,
                 config, modelMapping, round, phase, batches, batchIdx, phases,
                 outcome, faults, taskIds, judgeModelName, currentPlans,
                 selfPlans, stats, complete,
                 finalPlan>>

\* Lines 685-697, 736-748, 814-823: a task's call resolved.
D_TaskOk(i) ==
  /\ prog = "debate"
  /\ pc = "d_batchWait"
  /\ RacedCallResolves
  /\ i \in DOMAIN inflight
  /\ inflight[i] = Running
  /\ logEntry(SendToModelUsage(modelMapping.idToModel[taskIds[i]],
                               PromptLen, ResponseLen))
  /\ inflight' = [inflight EXCEPT ![i] = Settled]
  /\ currentPlans' =
       IF phase = "critique" THEN currentPlans
       ELSE SetPlan(currentPlans, taskIds[i], Text(phase, taskIds[i], round))
  /\ UNCHANGED <<clientVars, token, consensusKind, runVars, prog, options, sinkRejects, envKeys, availableModels,
                 pc, config, modelMapping, round, phase, batches, batchIdx,
                 calls, prompts, phases, outcome, faults, taskIds, judgeModelName,
                 selfPlans, complete, finalPlan>>

\* Lines 698-700, 749-751, 824-826: a task's call rejected.
D_TaskFail(i) ==
  /\ prog = "debate"
  /\ pc = "d_batchWait"
  /\ i \in DOMAIN inflight
  /\ inflight[i] = Running
  /\ RacedCallRejects
  /\ inflight' = [inflight EXCEPT ![i] = Settled]
  /\ UNCHANGED <<clientVars, token, consensusKind, runVars, prog, options, sinkRejects, envKeys, availableModels,
                 pc, config, modelMapping, round, phase, batches, batchIdx,
                 calls, prompts, phases, outcome, taskIds, judgeModelName, currentPlans,
                 selfPlans, stats, complete,
                 finalPlan>>

\* The for-loop over batches moves on once Promise.all resolved.
D_NextBatch ==
  /\ prog = "debate"
  /\ pc = "d_batchWait"
  /\ BatchSettled
  /\ batchIdx < Len(batches)
  /\ batchIdx' = batchIdx + 1
  /\ inflight' = <<>>
  /\ pc' = "d_batchStart"
  /\ UNCHANGED <<clientVars, token, consensusKind, runVars, prog, options, sinkRejects, envKeys, availableModels,
                 config, modelMapping, round, phase, batches, calls, prompts, phases,
                 outcome, faults, taskIds, judgeModelName, currentPlans,
                 selfPlans, stats, complete,
                 finalPlan>>

\* Faulty variant: only consensus skips the critique.
SkipCritiqueOnConsensusOnly(r, rounds, reached) == reached

\* Lines 788-791: round === rounds || stats.consensus.reached
SkipCritique(r, rounds, reached) == r = rounds \/ reached

\* Lines 788-800: the critique phase, unless this is the final round or
\* consensus was reached; consensus is stats.consensus.reached.
D_CritiqueOrContinue(reached) ==
  IF SkipCritique(round, config.rounds, reached)
    THEN /\ round' = round + 1
         /\ pc' = "d_loop"
         /\ UNCHANGED <<phase, phases, taskIds, batches, batchIdx>>
    ELSE /\ D_StartPhase("critique", PlanIds(currentPlans))
         /\ UNCHANGED round

\* Lines 762-800: the generation or synthesis batches have drained: the
\* consensus check is issued, or the round goes on to critique.
D_EndPlanPhase ==
  /\ prog = "debate"
  /\ pc = "d_batchWait"
  /\ phase \in {"generate", "synthesize"}
  /\ BatchSettled
  /\ batchIdx = Len(batches)
  /\ inflight' = <<>>
  /\ IF round > 1 /\ Len(currentPlans) > 1 THEN
       /\ phases' = Append(phases, Phase("consensus", round))
       /\ calls' = Append(calls, CallWith("consensus", judgeModelName, round, abortSignal))
       /\ UNCHANGED prompts
       /\ pc' = "d_consensusWait"
       /\ UNCHANGED <<round, phase, taskIds, batches, batchIdx>>
     ELSE
       /\ D_CritiqueOrContinue(stats.consensus.reached)
       /\ UNCHANGED <<calls, prompts, prompts>>
  /\ UNCHANGED <<clientVars, token, consensusKind, runVars, prog, options, sinkRejects, envKeys, availableModels,
                 config, modelMapping, outcome, faults, judgeModelName,
                 currentPlans, selfPlans, stats,
                 complete, finalPlan>>

\* Lines 773-791: the consensus result is recorded; break when reached.
RecordConsensus(result) ==
  /\ stats' = [stats EXCEPT !.consensus =
                 [reached |-> result.reached, round |-> round,
                  score |-> result.score]]
  /\ IF result.reached
       THEN /\ pc' = "d_judge"
            /\ UNCHANGED <<round, phase, phases, taskIds, batches, batchIdx>>
       ELSE D_CritiqueOrContinue(result.reached)

\* Lines 393-411: the consensus call resolved with resp.
D_ConsensusOk(resp) ==
  /\ prog = "debate"
  /\ pc = "d_consensusWait"
  /\ ConsensusCallResolves
  /\ RecordConsensus(ConsensusOf(resp))
  /\ consensusKind' = IF resp.json THEN "json" ELSE "text"
  /\ UNCHANGED <<clientVars, token, runVars, prog, options, sinkRejects, envKeys, availableModels,
                 config, modelMapping, inflight, calls, prompts, outcome, faults,
                 judgeModelName, currentPlans, selfPlans, complete, finalPlan>>

\* Lines 412-415: the consensus call rejected.
D_ConsensusFail ==
  /\ prog = "debate"
  /\ pc = "d_consensusWait"
  /\ ConsensusCallRejects
  /\ RecordConsensus([reached |-> FALSE, score |-> 0])
  /\ consensusKind' = "failed"
  /\ UNCHANGED <<clientVars, token, runVars, prog, options, sinkRejects, envKeys, availableModels,
                 config, modelMapping, inflight, calls, prompts, outcome,
                 judgeModelName, currentPlans, selfPlans, complete, finalPlan>>

\* Lines 831-835: the critique batches have drained; next round.
D_EndCritique ==
  /\ prog = "debate"
  /\ pc = "d_batchWait"
  /\ phase = "critique"
  /\ BatchSettled
  /\ batchIdx = Len(batches)
  /\ inflight' = <<>>
  /\ round' = round + 1
  /\ pc' = "d_loop"
  /\ UNCHANGED <<clientVars, token, consensusKind, runVars, prog, options, sinkRejects, envKeys, availableModels,
                 config, modelMapping, phase, batches, batchIdx, calls, prompts, phases,
                 outcome, faults, taskIds, judgeModelName, currentPlans,
                 selfPlans, stats, complete,
                 finalPlan>>

\* Lines 837-854: the final judgment phase.
D_Judge ==
  /\ prog = "debate"
  /\ pc = "d_judge"
  /\ phases' = Append(phases, Phase("judge", round))
  /\ IF Len(currentPlans) = 0 THEN
       /\ finalPlan' = NoPlanText
       /\ pc' = "d_return"
       /\ UNCHANGED <<calls, prompts, complete>>
     ELSE IF UsedDirectly(currentPlans) THEN
       /\ finalPlan' = currentPlans[1].text
       /\ complete' = TRUE
       /\ pc' = "d_return"
       /\ UNCHANGED <<calls, prompts, prompts>>
     ELSE
       /\ calls' = Append(calls, CallWith("judge", judgeModelName, config.rounds, debateSignal))
       /\ UNCHANGED prompts
       /\ pc' = "d_judgeWait"
       /\ UNCHANGED <<finalPlan, complete>>
  /\ UNCHANGED <<clientVars, token, consensusKind, runVars, prog, options, sinkRejects, envKeys, availableModels,
                 config, modelMapping, round, phase, batches, batchIdx,
                 inflight, outcome, faults, taskIds, judgeModelName,
                 currentPlans, selfPlans, stats>>

\* Lines 856-872: the judge call resolved; score is what its
\* "Confidence Score:" line holds.
D_JudgeOk(score) ==
  /\ prog = "debate"
  /\ pc = "d_judgeWait"
  /\ RacedCallResolves
  /\ LET usage == SendToModelUsage(judgeModelName, PromptLen, ResponseLen)
     IN stats' = [stats EXCEPT !.totalTokens = @ + usage.total,
                               !.totalApiCalls = @ + 1,
                               !.consensus.score = extractConfidenceScore(score)]
  /\ finalPlan' = JudgeText
  /\ complete' = TRUE
  /\ pc' = "d_return"
  /\ UNCHANGED <<clientVars, token, consensusKind, runVars, prog, options, sinkRejects, envKeys, availableModels,
                 config, modelMapping, round, phase, batches, batchIdx,
                 inflight, calls, prompts, phases, outcome, faults, taskIds,
                 judgeModelName, currentPlans, selfPlans>>

\* Lines 873-880: the judge call rejected; the first plan is the fallback.
D_JudgeFail ==
  /\ prog = "debate"
  /\ pc = "d_judgeWait"
  /\ RacedCallRejects
  /\ finalPlan' = currentPlans[1].text
  /\ pc' = "d_return"
  /\ UNCHANGED <<clientVars, token, consensusKind, runVars, prog, options, sinkRejects, envKeys, availableModels,
                 config, modelMapping, round, phase, batches, batchIdx,
                 inflight, calls, prompts, phases, outcome, taskIds, judgeModelName,
                 currentPlans, selfPlans, stats,
                 complete>>

\* Lines 914-927: debate() returns its result.
D_Return ==
  /\ prog = "debate"
  /\ pc = "d_return"
  /\ outcome' = Outcome("returned", "", round, NoWinner)
  /\ pc' = "done"
  /\ UNCHANGED <<clientVars, token, consensusKind, runVars, prog, options, sinkRejects, envKeys, availableModels,
                 config, modelMapping, round, phase, batches, batchIdx,
                 inflight, calls, prompts, phases, faults, taskIds, judgeModelName,
                 currentPlans, selfPlans, stats,
                 complete, finalPlan>>

\* Lines 477-494: the caller aborts its signal, or the deadline passes,
\* while debate() is waiting: timeoutPromise rejects.
D_Abort(kind) ==
  /\ prog = "debate"
  /\ token = "live"
  /\ kind = "aborted" => options.abortSignal
  /\ \/ pc \in {"d_selfWait", "d_consensusWait", "d_judgeWait", "d_judge"}
     \/ pc = "d_batchWait" /\ ~BatchSettled
  /\ token' = kind
  /\ UNCHANGED <<clientVars, consensusKind, runVars, prog, options, sinkRejects, envKeys,
                 availableModels, pc, config, modelMapping, round, phase,
                 batches, batchIdx, inflight, calls, prompts, phases, outcome, faults,
                 taskIds, judgeModelName, currentPlans, selfPlans, stats,
                 complete, finalPlan>>

NextDebate ==
  \/ D_Setup
  \/ D_SelfStep
  \/ D_SelfOk
  \/ D_SelfFail
  \/ D_RoundHead
  \/ D_StartBatch
  \/ \E i \in 1..MaxIds : D_TaskOk(i)
  \/ \E i \in 1..MaxIds : D_TaskFail(i)
  \/ D_NextBatch
  \/ D_EndPlanPhase
  \/ \E resp \in ConsensusResponses : D_ConsensusOk(resp)
  \/ D_ConsensusFail
  \/ D_EndCritique
  \/ D_Judge
  \/ \E score \in {Unset} \cup ScoreValues : D_JudgeOk(score)
  \/ D_JudgeFail
  \/ D_Return

Init == InitRunDebate \/ InitDebate
Next == NextRunDebate \/ NextDebate
Spec == Init /\ [][Next]_vars

(***************************************************************************)
(* debate() with cancellation: the caller may pass an abort signal and     *)
(* abort it, and the deadline may pass, while debate() is waiting.  The    *)
(* notification sink and the token budget are left out, and all but one of *)
(* the faults of the backends are spent from the start.                    *)
(***************************************************************************)
InitCancel ==
  /\ prog = "debate"
  /\ options \in [toolType : {"plan"}, enabled : {TRUE},
                  rounds : {Unset} \cup 1..DebateMaxRounds,
                  maxTotalTokens : {0},
                  parallelism : {2},
                  abortSignal : BOOLEAN]
  /\ envKeys \in [openai : BOOLEAN, gemini : BOOLEAN]
  /\ availableModels = <<>>
  /\ sinkRejects = FALSE
  /\ pc = "start"
  /\ config = [enabled |-> FALSE, rounds |-> 0, maxTotalTokens |-> 0]
  /\ modelMapping = createModelMapping(<<>>)
  /\ round = 0
  /\ debateContext = [candidates |-> <<>>, critiques |-> <<>>, round |-> 1]
  /\ candidateModelMapping = <<>>
  /\ phase = ""
  /\ batches = <<>>
  /\ batchIdx = 0
  /\ inflight = <<>>
  /\ results = <<>>
  /\ usedTokens = 0
  /\ totalPromptTokens = 0
  /\ totalCompletionTokens = 0
  /\ warnings = <<>>
  /\ calls = <<>>
  /\ prompts = <<>>
  /\ phases = <<>>
  /\ judgeResult = NoJudgeResult
  /\ finalOutput = EmptyText
  /\ outcome = StillRunning
  /\ faults = MaxFaults - 1
  /\ taskIds = <<>>
  /\ judgeModelName = ""
  /\ currentPlans = <<>>
  /\ selfPlans = <<>>
  /\ stats = [totalTokens |-> 0, totalApiCalls |-> 0,
              consensus |-> [reached |-> FALSE, round |-> 0, score |-> 0]]
  /\ complete = FALSE
  /\ finalPlan = EmptyText
  /\ consensusKind = "none"
  /\ token = "live"
  /\ rt = IdleRetry
  /\ fb = IdleFallback
  /\ fnCall = IdleCall

NextCancel ==
  \/ NextDebate
  \/ \E kind \in {"aborted", "timeout"} : D_Abort(kind)

SpecCancel == InitCancel /\ [][NextCancel]_vars

\* Lines 479-486: the timer set at the start of debate() runs out after
\* debate() has returned.  The timer is cleared in the listener of the
\* caller's abort event only (line 490), so a return leaves it armed: its
\* callback aborts the local controller and rejects timeoutPromise.
D_TimerFires ==
  /\ prog = "debate"
  /\ pc = "done"
  /\ token = "live"
  /\ token' = "timeout"
  /\ UNCHANGED <<clientVars, consensusKind, runVars, prog, options, sinkRejects, envKeys,
                 availableModels, pc, config, modelMapping, round, phase,
                 batches, batchIdx, inflight, calls, prompts, phases, outcome, faults,
                 taskIds, judgeModelName, currentPlans, selfPlans, stats,
                 complete, finalPlan>>

\* debate() with cancellation, followed past its return
NextTimer ==
  \/ NextCancel
  \/ D_TimerFires

SpecTimer == InitCancel /\ [][NextTimer]_vars

(***************************************************************************)
(* One model call of debate(): sendToModel wraps the provider client in    *)
(* withRetry, and the OpenAI client has a retry loop of its own for        *)
(* rate-limit errors.  withRetry is followed with the options a caller may *)
(* pass; sendToModel passes { attempts: 3 }.                               *)
(***************************************************************************)
RetryOptionsInputs == [attempts : {Unset} \cup 0..MaxAttempts,
                       initialDelay : {Unset, 3},
                       maxDelay : {Unset, 5},
                       factor : {Unset} \cup 1..MaxFactor,
                       jitter : BOOLEAN]     \* omitted: true
\* Math.random(), in thousandths
RandomSamples == {0, 999}
ErrorKinds == {"aborted", "unreachable", "other"}

\* the destructuring defaults (lines 107-113)
RetryDefaults(o) ==
  [attempts |-> Coalesce(o.attempts, DefaultAttempts),
   initialDelay |-> Coalesce(o.initialDelay, DefaultInitialDelay),
   maxDelay |-> Coalesce(o.maxDelay, DefaultMaxDelay),
   factor |-> Coalesce(o.factor, DefaultFactor),
   jitter |-> o.jitter]

\* sendToModel's withRetry(..., { attempts: 3 })
SendToModelRetryOptions ==
  [attempts |-> SendToModelAttempts, initialDelay |-> Unset, maxDelay |-> Unset,
   factor |-> Unset, jitter |-> TRUE]

\* a backoff without the cap of maxDelay
BackoffUncapped(o, attempt) == o.initialDelay * o.factor ^ (attempt - 1)

\* Math.min(initialDelay * Math.pow(factor, attempt - 1), maxDelay)
Backoff(o, attempt) == Min(o.initialDelay * o.factor ^ (attempt - 1), o.maxDelay)

\* Math.floor(delay * (0.75 + Math.random() * 0.5)), random in thousandths
Jitter(delay, random) == (delay * (1500 + random)) \div 2000

\* the catch block of withRetry (lines 120-139) for a failure of fn
withRetryCatch(r, kind, random) ==
  IF r.attempt = r.opts.attempts THEN
    [r EXCEPT !.pc = "thrown", !.error = kind, !.failures = @ + 1]
  ELSE
    LET delay == Backoff(r.opts, r.attempt)
    IN [r EXCEPT !.pc = "backoff", !.error = kind, !.failures = @ + 1,
                 !.delays = Append(@, IF r.opts.jitter THEN Jitter(delay, random)
                                      ELSE delay)]

InitRetry ==
  /\ prog = "sendToModel"
  /\ options = [toolType |-> "plan", enabled |-> TRUE, rounds |-> Unset,
                maxTotalTokens |-> 0, parallelism |-> Unset, abortSignal |-> FALSE]
  /\ envKeys = [openai |-> TRUE, gemini |-> TRUE]
  /\ availableModels = <<>>
  /\ InitOrchestrator
  /\ ~sinkRejects
  /\ fb = IdleFallback
  /\ fnCall = IdleCall
  /\ \E o \in RetryOptionsInputs \cup {SendToModelRetryOptions},
        modelType \in {"openai", "gemini"}, cancelled \in BOOLEAN :
       rt = [pc |-> "start", modelType |-> modelType, raw |-> o,
                opts |-> RetryDefaults(o), attempt |-> 0, retries |-> 0,
                requests |-> 0, failures |-> 0, delays |-> <<>>,
                error |-> "none", cancelled |-> cancelled]

\* the for loop is entered (line 117), or not at all when attempts < 1 and
\* line 143 throws
WR_Start ==
  /\ prog = "sendToModel"
  /\ rt.pc = "start"
  /\ rt' = IF 1 <= rt.opts.attempts
           THEN [rt EXCEPT !.pc = "request", !.attempt = 1, !.retries = 0]
           ELSE [rt EXCEPT !.pc = "thrown", !.error = "Retry failed"]
  /\ UNCHANGED <<fb, fnCall, debateVars, runVars, prog, options, sinkRejects, availableModels,
                 pc, config, modelMapping, round, phase, batches, batchIdx,
                 inflight, calls, prompts, phases, outcome, faults, taskIds>>

\* the provider answers: fn resolves and withRetry returns (line 119)
Client_RequestOk ==
  /\ prog = "sendToModel"
  /\ rt.pc = "request"
  /\ ~rt.cancelled
  /\ rt' = [rt EXCEPT !.pc = "returned", !.requests = @ + 1]
  /\ UNCHANGED <<fb, fnCall, debateVars, runVars, prog, options, sinkRejects, availableModels,
                 pc, config, modelMapping, round, phase, batches, batchIdx,
                 inflight, calls, prompts, phases, outcome, faults, taskIds>>

\* the provider answers 429 (tokens).  The OpenAI client waits and sends the
\* request again while retries < maxRetries (modelConfig.ts lines 482-502);
\* otherwise, and for Gemini, the error leaves the client and withRetry
\* catches it.
Client_RateLimited ==
  /\ prog = "sendToModel"
  /\ rt.pc = "request"
  /\ ~rt.cancelled
  /\ \E random \in RandomSamples :
       rt' = IF rt.modelType = "openai" /\ rt.retries < OpenAiMaxRetries
             THEN [rt EXCEPT !.requests = @ + 1, !.retries = @ + 1]
             ELSE withRetryCatch([rt EXCEPT !.requests = @ + 1], "rateLimit", random)
  /\ UNCHANGED <<fb, fnCall, debateVars, runVars, prog, options, sinkRejects, availableModels,
                 pc, config, modelMapping, round, phase, batches, batchIdx,
                 inflight, calls, prompts, phases, outcome, faults, taskIds>>

\* the request fails otherwise: the client throws and withRetry catches.  A
\* request handed an aborted signal rejects with the abort error
\* (modelConfig.ts lines 458, 474-479; gemini.ts line 100), and no request
\* rejects with it while the signal is not aborted.
Client_RequestFails(kind) ==
  /\ prog = "sendToModel"
  /\ rt.pc = "request"
  /\ kind = "aborted" <=> rt.cancelled
  /\ \E random \in RandomSamples :
       rt' = withRetryCatch([rt EXCEPT !.requests = @ + 1], kind, random)
  /\ UNCHANGED <<fb, fnCall, debateVars, runVars, prog, options, sinkRejects, availableModels,
                 pc, config, modelMapping, round, phase, batches, batchIdx,
                 inflight, calls, prompts, phases, outcome, faults, taskIds>>

\* the delay is over (line 139): the next attempt calls fn again
WR_NextAttempt ==
  /\ prog = "sendToModel"
  /\ rt.pc = "backoff"
  /\ rt' = [rt EXCEPT !.pc = "request", !.attempt = @ + 1, !.retries = 0]
  /\ UNCHANGED <<fb, fnCall, debateVars, runVars, prog, options, sinkRejects, availableModels,
                 pc, config, modelMapping, round, phase, batches, batchIdx,
                 inflight, calls, prompts, phases, outcome, faults, taskIds>>

\* the caller aborts the signal it handed to sendToModel (line 255), at any
\* moment before the call has ended
WR_Cancel ==
  /\ prog = "sendToModel"
  /\ rt.pc \in {"start", "request", "backoff"}
  /\ ~rt.cancelled
  /\ rt' = [rt EXCEPT !.cancelled = TRUE]
  /\ UNCHANGED <<fb, fnCall, debateVars, runVars, prog, options, sinkRejects, availableModels,
                 pc, config, modelMapping, round, phase, batches, batchIdx,
                 inflight, calls, prompts, phases, outcome, faults, taskIds>>

NextRetry ==
  \/ WR_Start
  \/ WR_Cancel
  \/ Client_RequestOk
  \/ Client_RateLimited
  \/ \E kind \in ErrorKinds : Client_RequestFails(kind)
  \/ WR_NextAttempt

SpecRetry == InitRetry /\ [][NextRetry]_vars

(***************************************************************************)
(* sendToModelWithFallback: one call of the selected provider and, for an  *)
(* unreachable OpenAI API, one call of Gemini instead.                     *)
(***************************************************************************)
ModelTypes == {"openai", "anthropic", "gemini"}
TokenCounts == {1, GeminiTokenLimit, GeminiTokenLimit + 1}
\* what a provider client throws: an Error whose message holds "OpenAI API
\* unreachable" (sendOpenAiPrompt only), an abort, another Error, or a value
\* that is not an Error
ProviderErrors(modelType) ==
  (IF modelType = "openai" THEN {"unreachable"} ELSE {}) \cup {"aborted", "other", "nonError"}

NoError == [at |-> "none", kind |-> "none"]
Rejection(at, kind) == [at |-> at, kind |-> kind]
ProviderCall(modelType, role) == [modelType |-> modelType, role |-> role]

\* a fallback condition that does not look at the error
ShouldFallbackAnyError(modelType, hasGeminiKey, tokenCount, error) ==
  /\ modelType = "openai"
  /\ hasGeminiKey
  /\ tokenCount <= GeminiTokenLimit

\* the condition of the catch block (lines 224-230)
ShouldFallback(modelType, hasGeminiKey, tokenCount, error) ==
  /\ modelType = "openai"
  /\ hasGeminiKey
  /\ tokenCount <= GeminiTokenLimit
  /\ error.kind = "unreachable"

\* the catch block (lines 219-254): the Gemini call is issued, or the error
\* is thrown again
FallbackCatch(f, error) ==
  IF ShouldFallback(f.modelType, f.hasGeminiKey, f.tokenCount, error)
  THEN [f EXCEPT !.pc = "fallbackWait", !.error = error,
                 !.providerCalls = Append(@, ProviderCall("gemini", "fallback"))]
  ELSE [f EXCEPT !.pc = "thrown", !.error = error, !.thrown = error]

InitFallback ==
  /\ prog = "sendToModelWithFallback"
  /\ options = [toolType |-> "plan", enabled |-> TRUE, rounds |-> Unset,
                maxTotalTokens |-> 0, parallelism |-> Unset, abortSignal |-> FALSE]
  /\ envKeys \in [openai : {TRUE}, gemini : BOOLEAN]
  /\ availableModels = <<>>
  /\ InitOrchestrator
  /\ rt = IdleRetry
  /\ fnCall = IdleCall
  /\ \E modelType \in ModelTypes, tokenCount \in TokenCounts :
       fb = [pc |-> "start", modelType |-> modelType, tokenCount |-> tokenCount,
             hasGeminiKey |-> envKeys.gemini, providerCalls |-> <<>>,
             error |-> NoError, thrown |-> NoError, result |-> "none"]

\* the try block up to the provider call (lines 173-217): the "Sending
\* request" notification, then the call of the selected provider
FB_Primary ==
  /\ prog = "sendToModelWithFallback"
  /\ fb.pc = "start"
  /\ fb' = IF sinkRejects
           THEN FallbackCatch(fb, Rejection("sink", "other"))
           ELSE [fb EXCEPT !.pc = "primaryWait",
                           !.providerCalls = Append(@, ProviderCall(fb.modelType, "primary"))]
  /\ UNCHANGED <<rt, fnCall, debateVars, runVars, prog, options, sinkRejects, availableModels,
                 pc, config, modelMapping, round, phase, batches, batchIdx,
                 inflight, calls, prompts, phases, outcome, faults, taskIds>>

\* the provider call resolves: its text is returned
FB_PrimaryOk ==
  /\ prog = "sendToModelWithFallback"
  /\ fb.pc = "primaryWait"
  /\ fb' = [fb EXCEPT !.pc = "returned", !.result = "primary"]
  /\ UNCHANGED <<rt, fnCall, debateVars, runVars, prog, options, sinkRejects, availableModels,
                 pc, config, modelMapping, round, phase, batches, batchIdx,
                 inflight, calls, prompts, phases, outcome, faults, taskIds>>

\* the provider call rejects: the catch block runs
FB_PrimaryFails(kind) ==
  /\ prog = "sendToModelWithFallback"
  /\ fb.pc = "primaryWait"
  /\ kind \in ProviderErrors(fb.modelType)
  /\ fb' = FallbackCatch(fb, Rejection("primary", kind))
  /\ UNCHANGED <<rt, fnCall, debateVars, runVars, prog, options, sinkRejects, availableModels,
                 pc, config, modelMapping, round, phase, batches, batchIdx,
                 inflight, calls, prompts, phases, outcome, faults, taskIds>>

\* return await sendGeminiPrompt(...) of the catch block resolves
FB_FallbackOk ==
  /\ prog = "sendToModelWithFallback"
  /\ fb.pc = "fallbackWait"
  /\ fb' = [fb EXCEPT !.pc = "returned", !.result = "fallback"]
  /\ UNCHANGED <<rt, fnCall, debateVars, runVars, prog, options, sinkRejects, availableModels,
                 pc, config, modelMapping, round, phase, batches, batchIdx,
                 inflight, calls, prompts, phases, outcome, faults, taskIds>>

\* return await sendGeminiPrompt(...) of the catch block rejects: nothing
\* catches it
FB_FallbackFails(kind) ==
  /\ prog = "sendToModelWithFallback"
  /\ fb.pc = "fallbackWait"
  /\ kind \in ProviderErrors("gemini")
  /\ fb' = [fb EXCEPT !.pc = "thrown", !.thrown = Rejection("fallback", kind)]
  /\ UNCHANGED <<rt, fnCall, debateVars, runVars, prog, options, sinkRejects, availableModels,
                 pc, config, modelMapping, round, phase, batches, batchIdx,
                 inflight, calls, prompts, phases, outcome, faults, taskIds>>

AllProviderErrors == UNION {ProviderErrors(m) : m \in ModelTypes}

NextFallback ==
  \/ FB_Primary
  \/ FB_PrimaryOk
  \/ \E kind \in AllProviderErrors : FB_PrimaryFails(kind)
  \/ FB_FallbackOk
  \/ \E kind \in AllProviderErrors : FB_FallbackFails(kind)

SpecFallback == InitFallback /\ [][NextFallback]_vars

(***************************************************************************)
(* The configuration merge of runDebate with the log level, for the        *)
(* registered strategies and for a strategy registered without             *)
(* configDefaults.                                                         *)
(***************************************************************************)
LogLevels == {"debug", "info", "warn", "error"}
NoLevel == "undefined"      \* logLevel not given
DefaultLogLevel == "warn"   \* ... ?? "warn"
StrategyLogLevel == "info"  \* logLevel: "info" as const

\* a ?? b for log levels
CoalesceLevel(a, b) == IF a /= NoLevel THEN a ELSE b

\* strategy.configDefaults; "custom" is a strategy that declares none
ConfigDefaults(toolType) ==
  IF toolType = "custom" THEN [rounds |-> Unset, logLevel |-> NoLevel]
  ELSE [rounds |-> StrategyDefaultRounds(toolType), logLevel |-> StrategyLogLevel]

\* a merge in which the strategy's defaults come before the caller's values
MergeConfigStrategyFirst(opts, defaults) ==
  [enabled |-> opts.enabled,
   rounds |-> Coalesce(defaults.rounds, Coalesce(opts.rounds, DefaultRounds)),
   maxTotalTokens |-> Coalesce(opts.maxTotalTokens, 0),
   logLevel |-> CoalesceLevel(defaults.logLevel,
                              CoalesceLevel(opts.logLevel, DefaultLogLevel))]

\* The merged configuration (lines 149-159), log level included.
MergeConfigFull(opts, defaults) ==
  [enabled |-> opts.enabled,
   rounds |-> Coalesce(opts.rounds, Coalesce(defaults.rounds, DefaultRounds)),
   maxTotalTokens |-> Coalesce(opts.maxTotalTokens, 0),
   logLevel |-> CoalesceLevel(opts.logLevel,
                              CoalesceLevel(defaults.logLevel, DefaultLogLevel))]

InitConfig ==
  /\ prog = "mergeConfig"
  /\ options \in [toolType : {"opinion", "review", "custom"},
                  enabled : BOOLEAN,
                  rounds : {Unset} \cup 0..MaxRounds,
                  maxTotalTokens : BudgetLimits,
                  logLevel : {NoLevel} \cup LogLevels]
  /\ envKeys = [openai |-> TRUE, gemini |-> TRUE]
  /\ availableModels = <<>>
  /\ InitCommon
  /\ ~sinkRejects

\* lines 148-159
CFG_Merge ==
  /\ prog = "mergeConfig"
  /\ pc = "start"
  /\ config' = MergeConfigFull(options, ConfigDefaults(options.toolType))
  /\ pc' = "merged"
  /\ UNCHANGED <<clientVars, debateVars, runVars, prog, options, sinkRejects,
                 availableModels, modelMapping, round, phase, batches, batchIdx,
                 inflight, calls, prompts, phases, outcome, faults, taskIds>>

NextConfig == CFG_Merge

SpecConfig == InitConfig /\ [][NextConfig]_vars

(***************************************************************************)
(* OpinionStrategy.parseJudge, in its two versions, applied to a judge     *)
(* response and a candidate list.                                          *)
(***************************************************************************)
\* OpinionStrategy.parseJudge of src/strategies/opinionStrategy.ts
OpinionStrategyTsParseJudge(raw, candidates) ==
  IF raw.marker /= Unset /\ raw.marker - 1 >= 0 /\ raw.marker - 1 < Len(candidates)
    THEN Success(raw.marker - 1)
  ELSE IF raw.synth THEN Success(-1)
  ELSE IF Len(candidates) = 1 THEN Success(0)
  ELSE Failure

\* PlanStrategy.parseJudge (planStrategy.ts); synth: the response holds the
\* header "# Final Implementation Plan"
PlanParseJudge(raw, candidates) ==
  IF raw.marker /= Unset /\ raw.marker - 1 >= 0 /\ raw.marker - 1 < Len(candidates)
    THEN Success(raw.marker - 1)
  ELSE IF raw.synth THEN Success(-1)
  ELSE IF Len(candidates) = 1 THEN Success(0)
  ELSE Failure

CandidateLists == {[i \in 1..n |-> GenText(Ids[i])] : n \in 0..MaxModels}
OpinionVersions == {"part_005", "opinionStrategy.ts"}
ParseJudgeVersions == OpinionVersions \cup {"reviewStrategy.ts", "planStrategy.ts"}

\* the parseJudge of one strategy file
ParseJudgeOf(version, raw, candidates) ==
  IF version = "part_005" THEN OpinionParseJudge(raw, candidates)
  ELSE IF version = "opinionStrategy.ts" THEN OpinionStrategyTsParseJudge(raw, candidates)
  ELSE IF version = "reviewStrategy.ts" THEN ReviewParseJudge(raw, candidates)
  ELSE PlanParseJudge(raw, candidates)

InitJudge ==
  /\ prog = "parseJudge"
  /\ options = [toolType |-> "opinion", enabled |-> TRUE, rounds |-> Unset,
                maxTotalTokens |-> 0]
  /\ envKeys = [openai |-> TRUE, gemini |-> TRUE]
  /\ availableModels = <<>>
  /\ InitOrchestrator
  /\ ~sinkRejects
  /\ rt = IdleRetry
  /\ fb = IdleFallback
  /\ \E version \in ParseJudgeVersions, raw \in JudgeResponses,
        candidates \in CandidateLists :
       fnCall = [pc |-> "start", version |-> version, raw |-> raw,
                 candidates |-> candidates, result |-> NoJudgeResult]

\* strategy.parseJudge(raw, candidates)
PJ_Parse ==
  /\ prog = "parseJudge"
  /\ fnCall.pc = "start"
  /\ fnCall' = [fnCall EXCEPT
       !.pc = "returned",
       !.result = ParseJudgeOf(fnCall.version, fnCall.raw, fnCall.candidates)]
  /\ UNCHANGED <<rt, fb, debateVars, runVars, prog, options, sinkRejects,
                 availableModels, pc, config, modelMapping, round, phase, batches,
                 batchIdx, inflight, calls, prompts, phases, outcome, faults, taskIds>>

NextJudge == PJ_Parse

SpecJudge == InitJudge /\ [][NextJudge]_vars

(***************************************************************************)
(* selectModelBasedOnTokens, in the version that walks the preference list *)
(* of the tool's configuration (part_001) and in the version with the      *)
(* fixed order GPT-5, GPT-4.1, Gemini (modelManager.ts).                   *)
(***************************************************************************)
\* the model registry: GPT-5 up to 400K tokens, Gemini and GPT-4.1 about 1M
ModelRegistry ==
  [gpt5 |-> [name |-> "gpt-5", type |-> "openai", tokenLimit |-> 400000],
   gemini25pro |-> [name |-> "gemini-2.5-pro", type |-> "gemini",
                    tokenLimit |-> GeminiTokenLimit],
   gpt41 |-> [name |-> "gpt-4.1", type |-> "openai", tokenLimit |-> 1047576]]

\* getModelById(modelId) finds the model
KnownModel(modelId) == modelId \in DOMAIN ModelRegistry

\* toolConfig.preferredModels
PreferenceLists ==
  {<<"gpt5", "gemini25pro", "gpt41">>,
   <<"gemini25pro", "gpt5">>,
   <<"gpt41", "unknown", "gemini25pro">>,
   <<"gpt5">>,
   <<>>}
\* the order of the if statements of modelManager.ts
ModelManagerOrder == <<"gpt5", "gpt41", "gemini25pro">>
SelectionTokenCounts == {1, 400000, 400001, GeminiTokenLimit, GeminiTokenLimit + 1,
                         1047576, 1047577}

\* hasKey (lines 92-95)
HasKey(model, keys) ==
  \/ model.type = "openai" /\ keys.openai
  \/ model.type = "gemini" /\ keys.gemini
  \/ model.type = "anthropic" /\ keys.anthropic

\* a limit test that leaves out the limit itself
FitsBelow(tokenCount, model) == tokenCount < model.tokenLimit

\* tokenCount <= model.tokenLimit
Fits(tokenCount, model) == tokenCount <= model.tokenLimit

Selected(model) == [modelName |-> model.name, modelType |-> model.type,
                    withinLimit |-> TRUE, tokenLimit |-> model.tokenLimit]
NoneSelected == [modelName |-> "none", withinLimit |-> FALSE]

\* the first loop of selectModelBasedOnTokens (lines 87-107) from position i
\* on, and the return of the error result (lines 122-128)
RECURSIVE SelectFrom(_, _, _, _)
SelectFrom(preferred, i, tokenCount, keys) ==
  IF i > Len(preferred) THEN NoneSelected
  ELSE IF /\ KnownModel(preferred[i])
          /\ HasKey(ModelRegistry[preferred[i]], keys)
          /\ Fits(tokenCount, ModelRegistry[preferred[i]])
    THEN Selected(ModelRegistry[preferred[i]])
  ELSE SelectFrom(preferred, i + 1, tokenCount, keys)

\* selectModelBasedOnTokens of part_001
selectModelBasedOnTokens(preferred, tokenCount, keys) ==
  SelectFrom(preferred, 1, tokenCount, keys)

\* selectModelBasedOnTokens of modelManager.ts (lines 86-161)
ModelManagerSelect(tokenCount, keys) ==
  IF Fits(tokenCount, ModelRegistry.gpt5) /\ keys.openai
    THEN Selected(ModelRegistry.gpt5)
  ELSE IF Fits(tokenCount, ModelRegistry.gpt41) /\ keys.openai
    THEN Selected(ModelRegistry.gpt41)
  ELSE IF Fits(tokenCount, ModelRegistry.gemini25pro) /\ keys.gemini
    THEN Selected(ModelRegistry.gemini25pro)
  ELSE NoneSelected

InitSelect ==
  /\ prog = "selectModelBasedOnTokens"
  /\ options = [toolType |-> "opinion", enabled |-> TRUE, rounds |-> Unset,
                maxTotalTokens |-> 0]
  /\ envKeys \in [openai : BOOLEAN, gemini : BOOLEAN, anthropic : BOOLEAN]
  /\ availableModels = <<>>
  /\ InitOrchestrator
  /\ ~sinkRejects
  /\ rt = IdleRetry
  /\ fb = IdleFallback
  /\ \E tokenCount \in SelectionTokenCounts :
       \/ \E preferred \in PreferenceLists :
            fnCall = [pc |-> "start", version |-> "part_001",
                      preferred |-> preferred, tokenCount |-> tokenCount,
                      result |-> NoneSelected]
       \/ fnCall = [pc |-> "start", version |-> "modelManager.ts",
                    preferred |-> ModelManagerOrder, tokenCount |-> tokenCount,
                    result |-> NoneSelected]

SEL_Select ==
  /\ prog = "selectModelBasedOnTokens"
  /\ fnCall.pc = "start"
  /\ fnCall' = [fnCall EXCEPT
       !.pc = "returned",
       !.result = IF fnCall.version = "part_001"
                  THEN selectModelBasedOnTokens(fnCall.preferred, fnCall.tokenCount,
                                                envKeys)
                  ELSE ModelManagerSelect(fnCall.tokenCount, envKeys)]
  /\ UNCHANGED <<rt, fb, debateVars, runVars, prog, options, sinkRejects,
                 availableModels, pc, config, modelMapping, round, phase, batches,
                 batchIdx, inflight, calls, prompts, phases, outcome, faults, taskIds>>

NextSelect == SEL_Select

SpecSelect == InitSelect /\ [][NextSelect]_vars

(***************************************************************************)
(* createModelMapping, applied to lists of model names up to one longer    *)
(* than the list of ids: the names of ModelNames from some offset on,      *)
(* wrapping around, with one name possibly repeated.                       *)
(***************************************************************************)
MappingMaxLen == 9

\* n names starting after offset r; for dup > 1 the name at dup is the first name
NameList(r, n, dup) ==
  [i \in 1..n |->
     ModelNames[((r + (IF i = dup THEN 1 ELSE i) - 1) % Len(ModelNames)) + 1]]

InitMapping ==
  /\ prog = "createModelMapping"
  /\ options = [toolType |-> "opinion", enabled |-> TRUE, rounds |-> Unset,
                maxTotalTokens |-> 0]
  /\ envKeys = [openai |-> TRUE, gemini |-> TRUE]
  /\ \E r \in 0..Len(ModelNames) - 1, n \in 0..MappingMaxLen, dup \in 0..MappingMaxLen :
       /\ dup <= n
       /\ dup /= 1
       /\ availableModels = NameList(r, n, dup)
  /\ InitOrchestrator
  /\ ~sinkRejects
  /\ rt = IdleRetry
  /\ fb = IdleFallback
  /\ fnCall = [pc |-> "start"]

\* Lines 236-237: the mapping of the debate's models is created.
MAP_Create ==
  /\ prog = "createModelMapping"
  /\ fnCall.pc = "start"
  /\ modelMapping' = createModelMapping(availableModels)
  /\ fnCall' = [pc |-> "returned"]
  /\ UNCHANGED <<rt, fb, debateVars, runVars, prog, options, sinkRejects,
                 availableModels, pc, config, round, phase, batches,
                 batchIdx, inflight, calls, prompts, phases, outcome, faults, taskIds>>

NextMapping == MAP_Create

SpecMapping == InitMapping /\ [][NextMapping]_vars

(***************************************************************************)
(* Properties.                                                             *)
(***************************************************************************)
CountCalls(ph) == Cardinality({k \in 1..Len(calls) : calls[k].phase = ph})
CountPhases(name) == Cardinality({k \in 1..Len(phases) : phases[k].name = name})
CountWarnings(code, ph) ==
  Cardinality({k \in 1..Len(warnings) : warnings[k] = Warning(code, ph)})
CountCode(code) == Cardinality({k \in 1..Len(warnings) : warnings[k].code = code})

\* More than one backend takes part in the debate.
MultiModel == Len(availableModels) >= 2
\* The candidates the judge chooses from.
HasCandidate ==
  IF prog = "runDebate" THEN Len(debateContext.candidates) >= 1
  ELSE Len(currentPlans) >= 1
\* The round loop has been left.
AfterLoop == pc \in {"judgeWait", "meta", "done", "d_judgeWait", "d_return"}

\* C1, of runDebate: in a debate of more than one backend every round from the second on
\* begins with a synthesis, a consensus check follows each synthesis, no two
\* critiques run without a synthesis between them, and the judge phase is
\* the last one before the debate is done.
C1_PhaseOrder ==
  (prog = "runDebate" /\ MultiModel) =>
    /\ \A k \in 1..Len(phases) :
         /\ (phases[k].name = "synthesize" /\ k < Len(phases))
              => phases[k + 1].name = "consensus"
         /\ phases[k].name = "judge" => k = Len(phases)
         /\ (/\ k > 1
             /\ phases[k].round >= 2
             /\ phases[k - 1].round < phases[k].round
             /\ phases[k].name /= "judge")
              => phases[k].name = "synthesize"
    /\ \A j, k \in 1..Len(phases) :
         (j < k /\ phases[j].name = "critique" /\ phases[k].name = "critique")
           => \E m \in (j + 1)..(k - 1) : phases[m].name = "synthesize"
    /\ pc = "done" => (Len(phases) > 0 /\ phases[Len(phases)].name = "judge")

\* The case of C2: runDebate configured, two or more backends, rounds >= 1.
C2_Case ==
  /\ prog = "runDebate"
  /\ MultiModel
  /\ pc /= "start"
  /\ HasStrategy(options.toolType)
  /\ config.rounds >= 1

C2_Bounded ==
  /\ debateContext.round <= config.rounds
  /\ round <= config.rounds + 1
  /\ \A k \in 1..Len(phases) : phases[k].name /= "judge" => phases[k].round <= config.rounds
  /\ CountPhases("generate") <= 1
  /\ CountCalls("generate") <= Len(availableModels)
  /\ CountPhases("critique") <= config.rounds - 1
  /\ outcome.status = "returned" => outcome.rounds <= config.rounds

\* C2: runDebate with rounds = R >= 1 and two or more backends runs at most
\* R iterations of the round loop, the generation phase at most once and
\* the critique phase at most R - 1 times; the round counter never
\* decreases and the rounds count of the result is at most R.
C2_RoundsBounded ==
  [][C2_Case' => /\ C2_Bounded'
                 /\ C2_Case => /\ round' >= round
                               /\ debateContext'.round >= debateContext.round]_vars

C2_Witness ==
  /\ C2_Case
  /\ pc = "done"
  /\ config.rounds = 3
  /\ CountPhases("critique") = 2
  /\ outcome.rounds = 3

WorkerFails(i) ==
  /\ i \in DOMAIN inflight
  /\ i \in DOMAIN inflight'
  /\ inflight[i] = Running
  /\ inflight'[i] = Null

\* The generation phase of a runDebate of several backends has ended.
GenerationEnded ==
  /\ prog = "runDebate"
  /\ MultiModel
  /\ CountPhases("generate") = 1
  /\ ~(phase = "generate" /\ pc \in {"batchStart", "batchWait"})

C5_Step ==
  /\ \A i \in 1..MaxIds :
       (prog = "runDebate" /\ WorkerFails(i)) =>
         /\ warnings' = Append(warnings, Warning("GEN_FAIL", phase))
         /\ pc' = pc
         /\ outcome' = outcome
         /\ outcome.status = "running"
         /\ \A j \in DOMAIN inflight \ {i} : inflight'[j] = inflight[j]
  /\ GenerationEnded' =>
       Len(debateContext'.candidates) + CountWarnings("GEN_FAIL", "generate")'
         = Len(availableModels')

\* C5: when the worker of one backend fails in the generate or the critique
\* phase of runDebate, exactly one GEN_FAIL warning with that phase is
\* recorded, nothing is thrown out of runDebate, the other workers of the
\* batch are left running, and after generation every backend has either
\* contributed a candidate or left one GEN_FAIL warning.
C5_WorkerFailureContained == [][C5_Step]_vars

C5_Witness ==
  /\ prog = "runDebate"
  /\ pc = "done"
  /\ CountWarnings("GEN_FAIL", "generate") >= 1
  /\ CountWarnings("GEN_FAIL", "critique") >= 1
  /\ Len(debateContext.candidates) >= 2

\* Every backend was asked to generate in round 1 and every attempt failed.
AllGenerationFailed ==
  /\ prog = "runDebate"
  /\ Len(availableModels) >= 1
  /\ CountCalls("generate") = Len(availableModels)
  /\ CountWarnings("GEN_FAIL", "generate") = Len(availableModels)

\* C6 as stated: when every round-1 generation fails, runDebate raises a
\* fatal error rather than returning, and no critique or judge call is
\* made, for any number (>= 1) of available backends.
C6_AllFailedRaises ==
  AllGenerationFailed =>
    /\ pc \notin {"meta", "done"}
    /\ outcome.status /= "returned"
    /\ CountCalls("critique") = 0
    /\ CountCalls("judge") = 0

\* C6: when every round-1 generation fails no critique or judge phase is
\* entered; with two or more backends runDebate raises the fatal error
\* instead of returning, and with exactly one backend it records one
\* GEN_FAIL warning and returns the error message as the final output.
C6_AllFailedFatal ==
  AllGenerationFailed =>
    /\ CountCalls("critique") = 0
    /\ CountCalls("judge") = 0
    /\ CountPhases("critique") = 0
    /\ CountPhases("judge") = 0
    /\ MultiModel =>
         /\ pc \in {"batchWait", "thrown"}
         /\ outcome.status /= "returned"
         /\ pc = "thrown" => outcome = Thrown("AllGenerationsFailed")
    /\ ~MultiModel =>
         /\ pc \in {"meta", "done"}
         /\ finalOutput = ErrorText("A")
         /\ warnings = <<Warning("GEN_FAIL", "generate")>>
         /\ outcome.status /= "thrown"

C6_Witness ==
  /\ AllGenerationFailed
  /\ Len(availableModels) = 3
  /\ pc = "thrown"
  /\ outcome = Thrown("AllGenerationsFailed")

ThrowCause(error) ==
  CASE error = "NoStrategy" -> ~HasStrategy(options.toolType)
    [] error = "DebateDisabled" ->
         HasStrategy(options.toolType) /\ ~options.enabled
    [] error = "SinkRejected" -> HasStrategy(options.toolType) /\ sinkRejects
    [] error = "NoModels" ->
         /\ HasStrategy(options.toolType)
         /\ options.enabled
         /\ Len(availableModels) = 0
    [] error = "AllGenerationsFailed" -> MultiModel /\ AllGenerationFailed
    [] OTHER -> FALSE

C8_FinalOutputDefined ==
  (prog = "runDebate" /\ MultiModel) =>
    /\ CountPhases("judge") > 0 => Len(debateContext.candidates) > 0
    /\ pc = "done" =>
         \/ finalOutput = JudgeText
         \/ finalOutput \in ToSet(debateContext.candidates)

\* C9: when parseJudge succeeded, with winnerIdx = -1 the final output is
\* the judge's response and no candidate, and with winnerIdx = i >= 0 it is
\* candidates[i].
C9_FinalFollowsJudge ==
  (prog = "runDebate" /\ pc \in {"meta", "done"} /\ judgeResult.success) =>
    /\ judgeResult.winnerIdx >= -1
    /\ judgeResult.winnerIdx = -1 =>
         /\ finalOutput = JudgeText
         /\ finalOutput \notin ToSet(debateContext.candidates)
    /\ judgeResult.winnerIdx >= 0 =>
         /\ finalOutput = At(debateContext.candidates, judgeResult.winnerIdx)
         /\ finalOutput /= JudgeText

C9_Witness ==
  /\ prog = "runDebate"
  /\ pc = "done"
  /\ judgeResult = Success(-1)
  /\ Len(debateContext.candidates) >= 2
  /\ finalOutput = JudgeText

\* The judge call of a runDebate of several backends threw
\* (judgeResult is still null) or parseJudge reported failure.
JudgeFailed ==
  /\ prog = "runDebate"
  /\ MultiModel
  /\ pc \in {"meta", "done"}
  /\ ~judgeResult.success

\* C10: when the judge call throws or parseJudge reports failure, runDebate
\* still returns a result, its final output is candidates[0], exactly one
\* JUDGE_MALFORMED warning is recorded, with phase "judge", and no winner
\* is attributed.
C10_JudgeFallback ==
  JudgeFailed =>
    /\ finalOutput = At(debateContext.candidates, 0)
    /\ CountWarnings("JUDGE_MALFORMED", "judge") = 1
    /\ CountCode("JUDGE_MALFORMED") = 1
    /\ outcome.status /= "thrown"
    /\ pc = "done" => /\ outcome.status = "returned"
                      /\ outcome.winner = NoWinner

C10_Witness ==
  /\ JudgeFailed
  /\ pc = "done"
  /\ ~judgeResult.isNull
  /\ Len(debateContext.candidates) >= 2
  /\ finalOutput = debateContext.candidates[1]

\* The pre-round budget check of runDebate fails in this state.
BudgetCheckFails ==
  /\ prog = "runDebate"
  /\ pc = "loop"
  /\ round <= config.rounds
  /\ config.maxTotalTokens > 0
  /\ usedTokens + RoundEstimate > config.maxTotalTokens

\* The round loop of runDebate was stopped by the budget check.
BudgetStopped == prog = "runDebate" /\ CountCode("TOKEN_BUDGET") >= 1

C11_Step ==
  /\ BudgetCheckFails =>
       /\ warnings' = Append(warnings, Warning("TOKEN_BUDGET", "generate"))
       /\ pc' = "judge"
       /\ calls' = calls
       /\ debateContext'.candidates = debateContext.candidates
  /\ (prog = "runDebate" /\ CountCode("TOKEN_BUDGET")' > CountCode("TOKEN_BUDGET"))
       => BudgetCheckFails
  /\ BudgetStopped =>
       /\ debateContext' = debateContext
       /\ Len(calls') > Len(calls) => calls'[Len(calls')].phase = "judge"
  /\ BudgetStopped' =>
       /\ CountCode("TOKEN_BUDGET")' = 1
       /\ config'.maxTotalTokens > 0
       /\ pc' \in {"judge", "judgeWait", "meta", "done"}
       /\ \A k \in 1..Len(calls') :
            calls'[k].phase \in {"generate", "critique"}
              => calls'[k].round < debateContext'.round

\* C11: when the budget check before round r of runDebate fails (recorded
\* usage plus the per-round estimate exceeds maxTotalTokens), no generate or
\* critique call is issued in round r or later, exactly one TOKEN_BUDGET
\* warning is recorded in the whole debate, and the judge phase follows with
\* the candidates that exist at that point; with maxTotalTokens = 0 the
\* check never fails.
C11_BudgetStop == [][C11_Step]_vars

C11_Witness ==
  /\ BudgetStopped
  /\ pc = "done"
  /\ debateContext.round = 2
  /\ Len(debateContext.candidates) >= 2
  /\ CountCalls("critique") >= 2
  /\ CountCalls("judge") = 1

C12_Step ==
  /\ (prog = "debate" /\ pc = "d_consensusWait") =>
       /\ stats'.consensus.score >= ConsensusThreshold =>
            /\ stats'.consensus.reached
            /\ pc' = "d_judge"
            /\ calls' = calls
       /\ stats'.consensus.score < ConsensusThreshold =>
            /\ ~stats'.consensus.reached
            /\ pc' /= "d_judge"
  /\ (prog = "debate" /\ stats.consensus.reached /\ Len(calls') > Len(calls))
       => calls'[Len(calls')].phase = "judge"

\* C12: in debate(), whenever the consensus check after a synthesis yields
\* a score of at least 0.9, consensus is reached, the round loop ends at
\* once and the judge phase follows with no further synthesis or critique
\* call; whenever the score is below 0.9 the loop goes on to its next phase.
C12_ThresholdDecides == [][C12_Step]_vars

\* The consensus check of debate() ends in this step.
ConsensusEnds == prog = "debate" /\ pc = "d_consensusWait"

C13_OriginalStep ==
  (ConsensusEnds /\ consensusKind' \in {"text", "failed"}) =>
    /\ ~stats'.consensus.reached
    /\ stats'.consensus.score = 0
    /\ pc' \in {"d_loop", "d_batchStart"}

\* C13 as stated: when the consensus response cannot be parsed or the
\* consensus call fails, the outcome is "no consensus" with score 0,
\* consensus is never reported as reached, and the debate goes on.
C13_UnparsableIsNoConsensus == [][C13_OriginalStep]_vars

C13_Step ==
  /\ (ConsensusEnds /\ consensusKind' = "failed") =>
       /\ ~stats'.consensus.reached
       /\ stats'.consensus.score = 0
  /\ (ConsensusEnds /\ consensusKind' = "text") =>
       /\ stats'.consensus.score \in ScoreValues \cup {DefaultConfidence}
       /\ stats'.consensus.reached <=>
            stats'.consensus.score >= ConsensusThreshold
  /\ ConsensusEnds =>
       /\ consensusKind' /= "none"
       /\ stats'.consensus.round = round
       /\ pc' \in {"d_judge", "d_loop", "d_batchStart"}
       /\ pc' = "d_judge" <=> stats'.consensus.reached
       /\ finalPlan' = finalPlan
  /\ (prog' = "debate" /\ pc' = "done" /\ consensusKind' /= "none") =>
       /\ finalPlan' /= FailedText
       /\ CountPhases("judge")' = 1

\* C13: when the consensus call of debate() fails, the outcome is "no
\* consensus" with score 0; when its response is not JSON, the score is the
\* one of a "Confidence Score:" line of the text, 0.5 without such a line,
\* and consensus is reached exactly when that score is at least 0.9; in
\* neither case is the failure fatal: the loop goes on, or ends in the
\* judge phase when consensus was reached, and the debate returns its plan.
C13_ConsensusFailureNotFatal == [][C13_Step]_vars

C13_Witness ==
  /\ prog = "debate"
  /\ pc = "d_judge"
  /\ consensusKind = "text"
  /\ stats.consensus = [reached |-> TRUE, round |-> 2, score |-> 90]

\* Position of a backend id in the order A, B, C, ...
IdIndex(id) == CHOOSE k \in 1..Len(Ids) : Ids[k] = id

\* C14: whatever the order in which the concurrent generation tasks of
\* runDebate complete, candidates lists the outputs of the backends that
\* succeeded in backend-id order, and the candidate-to-backend mapping has
\* exactly one entry per such backend, entry i naming the backend that
\* produced candidates[i].
C14_CandidatesInIdOrder ==
  GenerationEnded =>
    LET candidates == debateContext.candidates
        mapping == candidateModelMapping
    IN /\ Len(mapping) = Len(candidates)
       /\ Len(candidates)
            = Len(availableModels) - CountWarnings("GEN_FAIL", "generate")
       /\ \A k \in 1..Len(candidates) :
            /\ candidates[k] = GenText(mapping[k].modelId)
            /\ mapping[k].candidateIndex = k - 1
            /\ mapping[k].modelId \in ToSet(modelIds)
            /\ mapping[k].modelName = modelMapping.idToModel[mapping[k].modelId]
       /\ \A j, k \in 1..Len(candidates) :
            j < k => IdIndex(candidates[j].by) < IdIndex(candidates[k].by)

C14_Witness ==
  /\ GenerationEnded
  /\ Len(availableModels) = 3
  /\ debateContext.candidates = <<GenText("A"), GenText("C")>>
  /\ candidateModelMapping[2].modelId = "C"
  /\ CountWarnings("GEN_FAIL", "generate") = 1

\* C15: when the cancellation token of debate() fires, by the caller's
\* abort or by the deadline, before the debate has finished, the result
\* returned is never marked complete, whatever number of plans had been
\* produced when the token fired.
C15_CancelledNeverComplete ==
  (prog = "debate" /\ pc = "done" /\ token /= "live") => ~complete

\* C16: the one cancellation token of a debate is handed to every backend
\* call of that debate: generate, critique, synthesize, consensus and judge
\* calls all carry the same token, in debate() the debate's own signal.
C16_SameTokenForEveryCall ==
  /\ \A j, k \in 1..Len(calls) : calls[j].signal = calls[k].signal
  /\ prog = "debate" => \A k \in 1..Len(calls) : calls[k].signal = debateSignal

\* C17: one model call of sendToModel sends at most 3 requests to the
\* provider, counting the attempts of withRetry and the rate-limit retries of
\* the provider client together.
C17_AtMostThreeAttempts ==
  (prog = "sendToModel" /\ rt.raw = SendToModelRetryOptions)
    => rt.requests <= SendToModelAttempts

\* b_j = min(initialDelay * factor^(j-1), maxDelay)
C18_Base(j) ==
  LET b == rt.opts.initialDelay * rt.opts.factor ^ (j - 1)
  IN IF b <= rt.opts.maxDelay THEN b ELSE rt.opts.maxDelay

\* C18: when fn fails k times, k < attempts, and then succeeds, withRetry
\* returns after exactly k backoff delays; when every attempt fails there is
\* no delay after the final attempt; and each delay d_j lies between
\* floor(0.75 * b_j) and 1.25 * b_j with jitter, and is b_j without.
C18_RetryDelays ==
  prog = "sendToModel" =>
    /\ rt.pc = "returned" =>
         /\ rt.failures < rt.opts.attempts
         /\ rt.attempt = rt.failures + 1
         /\ Len(rt.delays) = rt.failures
    /\ (rt.pc = "thrown" /\ rt.opts.attempts >= 1) =>
         /\ rt.failures = rt.opts.attempts
         /\ Len(rt.delays) = rt.opts.attempts - 1
    /\ \A j \in 1..Len(rt.delays) :
         IF rt.opts.jitter
         THEN /\ (75 * C18_Base(j)) \div 100 <= rt.delays[j]
              /\ 100 * rt.delays[j] <= 125 * C18_Base(j)
         ELSE rt.delays[j] = C18_Base(j)

C18_Witness ==
  /\ prog = "sendToModel"
  /\ rt.pc = "returned"
  /\ rt.failures = 2
  /\ rt.opts.jitter
  /\ rt.opts.initialDelay * rt.opts.factor > rt.opts.maxDelay
  /\ rt.delays[2] < C18_Base(2)

FallbackCalls == {k \in 1..Len(fb.providerCalls) : fb.providerCalls[k].role = "fallback"}

\* C19: sendToModelWithFallback makes at most one fallback call, and only
\* after the primary call of an OpenAI model failed with the unreachable
\* error while a Gemini credential is present and the token count fits
\* Gemini's limit; any other error is thrown again unchanged, and a failure
\* of the fallback call is thrown to the caller.
C19_FallbackOnce ==
  prog = "sendToModelWithFallback" =>
    /\ Cardinality(FallbackCalls) <= 1
    /\ Len(fb.providerCalls) <= 2
    /\ FallbackCalls /= {} =>
         /\ fb.providerCalls = <<ProviderCall("openai", "primary"),
                                 ProviderCall("gemini", "fallback")>>
         /\ fb.modelType = "openai"
         /\ fb.error = Rejection("primary", "unreachable")
         /\ fb.hasGeminiKey
         /\ fb.tokenCount <= GeminiTokenLimit
    /\ (fb.pc = "thrown" /\ FallbackCalls = {}) =>
         /\ fb.thrown = fb.error
         /\ fb.thrown /= NoError
    /\ (fb.pc = "thrown" /\ FallbackCalls /= {}) =>
         /\ fb.thrown.at = "fallback"
         /\ fb.result = "none"
    /\ fb.pc = "returned" =>
         fb.result = (IF FallbackCalls = {} THEN "primary" ELSE "fallback")

C19_Witness ==
  /\ prog = "sendToModelWithFallback"
  /\ fb.pc = "thrown"
  /\ FallbackCalls /= {}
  /\ fb.tokenCount = GeminiTokenLimit

\* the tasks of the batch in flight whose call has not settled
RunningTasks == {i \in DOMAIN inflight : inflight[i] = Running}
\* the batches whose tasks have been started
StartedBatches == IF pc = "batchStart" THEN batchIdx - 1 ELSE batchIdx
\* the places of task i in the batches
PlacesOf(i) ==
  {p \in (1..Len(batches)) \X (1..BatchWidth + 1) :
     p[2] <= Len(batches[p[1]]) /\ batches[p[1]][p[2]] = i}
\* the calls task i has issued in this phase
TaskCalls(i) ==
  {k \in 1..Len(calls) :
     calls[k] = Call(phase, modelMapping.idToModel[taskIds[i]], round)}

C20_Scheduled ==
  (prog = "runDebate" /\ pc \in {"batchStart", "batchWait"}) =>
    /\ Cardinality(RunningTasks) <= BatchWidth
    /\ \A i \in 1..Len(taskIds) :
         /\ Cardinality(PlacesOf(i)) = 1
         /\ Cardinality(TaskCalls(i)) =
              (IF \E p \in PlacesOf(i) : p[1] <= StartedBatches THEN 1 ELSE 0)
    /\ \A i \in RunningTasks : \E p \in PlacesOf(i) : p[1] = batchIdx

C20_Step ==
  /\ C20_Scheduled'
  /\ \A i \in RunningTasks :
       (prog = "runDebate" /\ pc = "batchWait" /\ inflight'[i] = Null) =>
         /\ pc' = "batchWait"
         /\ batches' = batches
         /\ batchIdx' = batchIdx
         /\ \A j \in DOMAIN inflight \ {i} : inflight'[j] = inflight[j]

\* C20: the batch scheduler of runDebate starts every task exactly once,
\* never has more than the batch width of tasks in flight, starts no task of
\* a later batch before every task of the batch in flight has settled, and a
\* failing task neither cancels its siblings nor the batches after it.
C20_BatchScheduler == [][C20_Step]_vars

C20_Witness ==
  /\ prog = "runDebate"
  /\ pc = "batchWait"
  /\ batchIdx = 2
  /\ \E k \in 1..Len(results) : results[k] = Null
  /\ \E k \in 1..Len(results) : results[k] /= Null
  /\ RunningTasks /= {}

\* C21: a notification sink that rejects never changes the outcome of
\* runDebate: a debate that a working sink lets run to its result is not
\* ended by the rejection of a sendNotification call.
C21_SinkFailureHarmless ==
  (/\ prog = "runDebate"
   /\ sinkRejects
   /\ HasStrategy(options.toolType)
   /\ MergeConfig(options).enabled
   /\ Len(availableModels) > 0) => outcome /= Thrown("SinkRejected")

C23_OpinionJudgeSelects ==
  (/\ prog = "parseJudge"
   /\ fnCall.pc = "returned"
   /\ fnCall.version \in OpinionVersions
   /\ Len(fnCall.candidates) >= 1) =>
    /\ fnCall.result.success
    /\ fnCall.result.winnerIdx \in 0..(Len(fnCall.candidates) - 1)

\* the positions of the preference list whose model is known, has its
\* provider's credential and a token limit of at least the token count
C24_Eligible ==
  {i \in 1..Len(fnCall.preferred) :
     /\ fnCall.preferred[i] \in DOMAIN ModelRegistry
     /\ envKeys[ModelRegistry[fnCall.preferred[i]].type]
     /\ ModelRegistry[fnCall.preferred[i]].tokenLimit >= fnCall.tokenCount}

C25_SelfDebateReturnsLastPlan ==
  (prog = "debate" /\ pc = "done" /\ Len(selfPlans) > 0)
    => finalPlan = selfPlans[Len(selfPlans)]

\* C26: no critique call is issued in the final configured round R, nor in
\* the round in which consensus was reached or any round after it; with
\* R = 1 a debate issues no critique call at all.
C26_NoCritiqueInFinalRound ==
  (prog \in {"runDebate", "debate"} /\ pc /= "start") =>
    \A k \in 1..Len(calls) :
      calls[k].phase = "critique" =>
        /\ calls[k].round < config.rounds
        /\ stats.consensus.reached => calls[k].round < stats.consensus.round
        /\ config.rounds /= 1

C26_Witness ==
  /\ prog = "debate"
  /\ pc = "done"
  /\ stats.consensus.reached
  /\ stats.consensus.round = 2
  /\ config.rounds = 3
  /\ CountCalls("critique") >= 2

\* C27: the critique prompt built for a backend never contains that
\* backend's own candidate.
C27_NoSelfCritique ==
  \A k \in 1..Len(prompts) :
    \A e \in 1..Len(prompts[k].entries) :
      prompts[k].entries[e].by /= prompts[k].modelId

\* the backends that hold a candidate: those of candidateModelMapping in
\* runDebate, those with a plan in debate()
Survivors ==
  IF prog = "runDebate"
    THEN {candidateModelMapping[j].modelName : j \in 1..Len(candidateModelMapping)}
    ELSE {modelMapping.idToModel[currentPlans[j].id] : j \in 1..Len(currentPlans)}

\* C28: a backend whose round-1 generation failed is out of the debate: no
\* critique or synthesis call is issued to it afterwards, and the mapping of
\* anonymous ids to backends stays the one made at the start.
C28_FailedBackendIsOut ==
  (prog \in {"runDebate", "debate"} /\ Len(availableModels) > 1) =>
    /\ \A k \in 1..Len(calls) :
         calls[k].phase \in {"critique", "synthesize"} => calls[k].model \in Survivors
    /\ DOMAIN modelMapping.idToModel /= {} =>
         modelMapping.idToModel = createModelMapping(availableModels).idToModel

C30_TokenFired ==
  token = "timeout" => \A k \in 1..Len(calls) : SignalFired(calls[k].signal)

\* no call is issued once the deadline has passed
C30_NoDispatch == token = "timeout" => calls' = calls

\* C30: when the deadline of debate() passes, the cancellation token handed
\* to the backend calls is fired, whether the debate created it or the caller
\* supplied it, so that no backend call of the debate stays in flight after
\* the expiry, and none is newly dispatched.
C30_DeadlineCancelsCalls == []C30_TokenFired /\ [][C30_NoDispatch]_vars

\* a step of a call whose token is cancelled waits no backoff delay and
\* starts no further attempt
C31_Step ==
  (prog = "sendToModel" /\ rt.cancelled /\ rt' /= rt) =>
    /\ rt'.pc /= "backoff"
    /\ rt'.delays = rt.delays
    /\ rt.attempt >= 1 => rt'.attempt = rt.attempt

\* C31: when the cancellation token is already cancelled as a model call
\* starts, or becomes cancelled between attempts, the call fails at once: no
\* further attempt is made, no backoff delay is waited and no retry budget
\* is consumed.
C31_CancelledFailsAtOnce == [][C31_Step]_vars

\* a failure that is neither a rate-limit response nor an unreachable
\* network ends the call, with no delay waited
C32_Step ==
  (/\ prog = "sendToModel"
   /\ rt'.failures = rt.failures + 1
   /\ rt'.error \notin {"rateLimit", "unreachable"}) =>
    /\ rt'.pc = "thrown"
    /\ rt'.delays = rt.delays

\* C32: a failure that is not transient (neither a rate-limit response nor a
\* network-unreachable condition) is never retried: the first such failure
\* propagates to the caller after exactly one attempt and without any
\* backoff delay.
C32_NonTransientNotRetried == [][C32_Step]_vars

\* the usage of one successful backend call
CallUsage == parseModelResponse(ResponseLen, PromptLen).total
\* the reported tokenUsage, prompt + completion
ReportedUsage == totalPromptTokens + totalCompletionTokens

C33_Accumulated ==
  prog = "runDebate" =>
    /\ hasTokenBudget => usedTokens = ReportedUsage
    /\ (pc = "done" /\ outcome.status = "returned") =>
         ReportedUsage = (Len(calls) - faults) * CallUsage

C33_Step ==
  prog = "runDebate" =>
    /\ ReportedUsage' >= ReportedUsage
    /\ usedTokens' >= usedTokens

\* C33: for every interleaving of the workers that complete within a batch
\* no token-usage update is lost: the reported usage (prompt + completion)
\* never decreases, the budget tracker's used count equals it at every step
\* whenever a budget is configured, and at the end both equal the sum of the
\* usage of all successful backend calls, the judge call included.
C33_NoUsageLost == []C33_Accumulated /\ [][C33_Step]_vars

C33_Witness ==
  /\ prog = "runDebate"
  /\ pc = "done"
  /\ outcome.status = "returned"
  /\ hasTokenBudget
  /\ faults = 1
  /\ Len(calls) = 5
  /\ ~judgeResult.isNull
  /\ usedTokens = 4 * CallUsage

\* a step that writes the plan set of debate() leaves no worker in flight
C34_Step ==
  (prog = "debate" /\ currentPlans' /= currentPlans) =>
    \A j \in DOMAIN inflight' : inflight'[j] /= Running

\* C34: in debate() the shared plan set is never written while a worker of
\* the current batch is still in flight: the plans are replaced once per
\* phase, after the whole batch has settled, and not from inside a worker.
C34_PlansWrittenAfterBatch == [][C34_Step]_vars

\* the candidates of runDebate, the plans of debate() and the responses of
\* the self-debate, as (owner, text) pairs
CandidateSet ==
  IF prog = "runDebate"
    THEN [k \in 1..Len(debateContext.candidates) |->
            [id |-> debateContext.candidates[k].by, text |-> debateContext.candidates[k]]]
  ELSE IF Len(selfPlans) > 0
    THEN [k \in 1..Len(selfPlans) |-> [id |-> "A", text |-> selfPlans[k]]]
  ELSE currentPlans

\* the slots of the candidate set a step changes
C35_Changed ==
  {k \in 1..Len(CandidateSet) : k <= Len(CandidateSet') /\ CandidateSet'[k] /= CandidateSet[k]}

C35_Step ==
  (prog \in {"runDebate", "debate"} /\ Len(CandidateSet) > 0) =>
    /\ Len(CandidateSet') >= Len(CandidateSet)
    /\ \A k \in 1..Len(CandidateSet) : CandidateSet'[k].id = CandidateSet[k].id
    /\ Cardinality(C35_Changed) <= 1
    /\ \A k \in C35_Changed :
         /\ phase = "synthesize"
         /\ CandidateSet'[k].text = SynthText(CandidateSet[k].id, round)
    /\ faults' /= faults => CandidateSet' = CandidateSet

\* C35: once the candidate set is non-empty it never shrinks or becomes
\* empty: no later phase removes a candidate, a successful synthesis by
\* backend X replaces only X's own candidate, and a failed synthesis or
\* critique leaves every candidate unchanged.
C35_CandidatesNeverShrink == [][C35_Step]_vars

C35_Witness ==
  /\ prog = "debate"
  /\ round = 2
  /\ phase = "synthesize"
  /\ faults = 1
  /\ Len(currentPlans) = 2
  /\ currentPlans[1].text = SynthText("A", 2)
  /\ currentPlans[2].text = GenText("B")
  /\ BatchSettled
  /\ pc = "d_batchWait"

\* the names of a list are pairwise distinct
Distinct(list) == \A i, j \in 1..Len(list) : list[i] = list[j] => i = j

C36_MappingFixed ==
  [][(prog \in {"runDebate", "debate"} /\ pc /= "start") => modelMapping' = modelMapping]_vars

\* DebateWarning: the codes and the phases a warning may carry
WarningCodes == {"GEN_FAIL", "JUDGE_MALFORMED", "VALIDATION_FAIL", "TOKEN_BUDGET"}
WarningPhases == {"generate", "critique", "judge", "validate"}

\* the budget check of the round loop would still pass
BudgetHolds ==
  ~hasTokenBudget \/ beginRound(usedTokens, config.maxTotalTokens, RoundEstimate)

C37_Wellformed ==
  /\ \A k \in 1..Len(warnings) :
       warnings[k].code \in WarningCodes /\ warnings[k].phase \in WarningPhases
  /\ (/\ prog = "runDebate"
      /\ pc = "done"
      /\ outcome.status = "returned"
      /\ faults = 0
      /\ judgeResult.isNull \/ judgeResult.success
      /\ BudgetHolds) => warnings = <<>>

C37_Step ==
  /\ Len(warnings') >= Len(warnings)
  /\ SubSeq(warnings', 1, Len(warnings)) = warnings
  /\ warnings' /= warnings =>
       \/ faults' = faults + 1
       \/ ~judgeResult'.isNull /\ ~judgeResult'.success /\ judgeResult' /= judgeResult
       \/ ~BudgetHolds

\* C37: the warnings list is append-only and warnings are recorded on
\* failure paths only: if every backend call succeeds, the judge output
\* parses and no budget check fails, the returned list is empty; every
\* warning has a code in {GEN_FAIL, JUDGE_MALFORMED, VALIDATION_FAIL,
\* TOKEN_BUDGET} and a phase of the fixed phase enumeration.
C37_WarningsOnFailureOnly == []C37_Wellformed /\ [][C37_Step]_vars

C37_Witness ==
  /\ prog = "runDebate"
  /\ pc = "done"
  /\ outcome.status = "returned"
  /\ faults = 0
  /\ judgeResult.success
  /\ hasTokenBudget
  /\ Len(calls) = 3
  /\ warnings = <<>>

\* C38: for every judge response and every non-empty candidate list a
\* successful parseJudge result, of the review, plan and opinion strategies,
\* has winnerIdx = -1 or 0 <= winnerIdx < candidates.length; a [[WINNER: n]]
\* marker with n beyond the candidate list is never returned as the winner,
\* so that candidates[winnerIdx] is defined for every winnerIdx >= 0.
C38_WinnerIdxInRange ==
  (/\ prog = "parseJudge"
   /\ fnCall.pc = "returned"
   /\ Len(fnCall.candidates) >= 1
   /\ fnCall.result.success) =>
    /\ \/ fnCall.result.winnerIdx = -1
       \/ fnCall.result.winnerIdx \in 0..(Len(fnCall.candidates) - 1)
    /\ (fnCall.raw.marker /= Unset /\ fnCall.raw.marker > Len(fnCall.candidates)) =>
         fnCall.result.winnerIdx /= fnCall.raw.marker - 1
    /\ fnCall.result.winnerIdx >= 0 =>
         At(fnCall.candidates, fnCall.result.winnerIdx) /= Undefined

C38_Witness ==
  /\ prog = "parseJudge"
  /\ fnCall.pc = "returned"
  /\ fnCall.version = "reviewStrategy.ts"
  /\ Len(fnCall.candidates) = 2
  /\ fnCall.raw.marker = 3
  /\ fnCall.raw.synth
  /\ fnCall.result = Success(-1)

\* C39: once debate() has returned its result its deadline timer has no
\* further effect: no timeout fires afterwards, nothing is aborted and no
\* promise is rejected after completion, on every path, the early exits (no
\* models available, single-model flow, success before the deadline)
\* included.
C39_TimerInertAfterReturn ==
  [][(prog = "debate" /\ pc = "done") => token' = token]_vars

====
